---- MODULE Spec2Model ----
(***************************************************************************)
(* Verification model of the prompt-refinement pipeline:                   *)
(*   - the Orchestrator graph (agents/orchestrator/controller.py),         *)
(*   - the stage-prompt lookup (agents/orchestrator/tool.py),              *)
(*   - the Diagnose sub-agent (agents/diagnostic_agent/tool.py),           *)
(*   - the Conversation Engine (agents/questioning_agent).                 *)
(* A Python dict is a TLA+ function whose DOMAIN is the set of keys that   *)
(* are present; a raised exception is a result record with ok = FALSE.     *)
(***************************************************************************)
EXTENDS Integers, Sequences, FiniteSets, TLC

\* ------------------------------------------------------------------------
\* Bounds of the model
\* ------------------------------------------------------------------------
MaxStages == 3

MaxQuestions == 2

MaxFollowup == 2

\* ------------------------------------------------------------------------
\* Small value universes
\* ------------------------------------------------------------------------
Questions == {"Q1", "Q2"}

InitialPrompts == {"P0"}

RECURSIVE SeqsUpTo(_, _)
SeqsUpTo(S, n) ==
    IF n = 0 THEN {<<>>}
    ELSE LET shorter == SeqsUpTo(S, n - 1)
         IN shorter \cup {Append(s, x) : s \in {t \in shorter : Len(t) = n - 1}, x \in S}

QuestionLists == SeqsUpTo(Questions, MaxQuestions)

Range(f) == {f[x] : x \in DOMAIN f}

\* Result of a call that may raise
Ok(v) == [ok |-> TRUE, value |-> v]

Raise(msg) == [ok |-> FALSE, error |-> msg]

VARIABLES
    stage_names,        \* OrchestratorTool.stage_names (config), fixed during a run
    max_followup_count, \* config["max_followup_count"], fixed during a run
    initial_prompt,     \* Orchestrator.initial_prompt
    config,             \* content of config/config.json
    recursion_limit,    \* the recursion_limit handed to compiled.invoke
    state,              \* the orchestrator state dict
    node,               \* the graph node about to run, or "END" / "ABORT"
    error,              \* message of the exception that aborted the run, "" if none
    trace,              \* observable events: sub-agent and node invocations
    engine,             \* which entry point of the Conversation Engine is running
    q_state,            \* the QuestioningAgent state dict / the tool call's arguments
    pc,                 \* position inside the Conversation Engine
    local,              \* local variables of the Conversation Engine
    main,               \* position of run_native around the graph run
    output_file         \* content of the output prompt file, "absent" if there is none

vars == <<stage_names, max_followup_count, initial_prompt, config, recursion_limit,
          state, node, error, trace,
          engine, q_state, pc, local, main, output_file>>

main_vars == <<main, output_file>>

config_vars == <<stage_names, max_followup_count, initial_prompt, config, recursion_limit>>

orchestrator_vars == <<state, node>>

engine_vars == <<engine, q_state, pc, local>>

\* ------------------------------------------------------------------------
\* Configuration
\* ------------------------------------------------------------------------
required_prompt_types == {"diagnostic", "questioning_followup", "questioning_compress", "integration"}

DEFAULT_RECURSION_LIMIT == 200

\* The prompt of stage n for agent type t: its path in config.json and, once
\* load_config has read the file, its content.
PromptOf(n, t) == <<n, t>>

\* The config.json of a valid configuration with the given stages.
ConfigOf(names, max_followup) ==
    [max_followup_count |-> max_followup,
     stage_names |-> names,
     stage_prompts |-> [n \in Range(names) |-> [t \in required_prompt_types |-> PromptOf(n, t)]]]

\* A validated configuration: every stage name has the four prompts.
stage_prompts == [n \in Range(stage_names) |-> [t \in required_prompt_types |-> <<n, t>>]]

valid_types == {"diagnostic", "questioning", "integration"}

get_system_prompt(stage_idx, agent_type) ==
    IF stage_idx < 1 \/ stage_idx > Len(stage_names)
    THEN Raise("stage_idx out of range")
    ELSE LET stage_name == stage_names[stage_idx] IN
         IF agent_type \notin valid_types
         THEN Raise("Invalid agent_type")
         ELSE IF stage_name \notin DOMAIN stage_prompts
         THEN Raise("Stage not found in stage_prompts")
         ELSE IF agent_type \notin DOMAIN stage_prompts[stage_name]
         THEN Raise("Agent type not found for stage")
         ELSE Ok(stage_prompts[stage_name][agent_type])

\* ------------------------------------------------------------------------
\* Diagnose sub-agent
\* ------------------------------------------------------------------------
\* A JSON value that is not a string (a number), as an element of a list.
NonString == "#42"

\* What the LLM gateway can answer to the diagnostic call.
DiagResponses ==
    {[raw |-> "raise"], [raw |-> "empty"], [raw |-> "notjson"],
     [raw |-> "json", has_questions |-> FALSE],
     [raw |-> "json", has_questions |-> TRUE, is_list |-> FALSE]}
    \cup {[raw |-> "json", has_questions |-> TRUE, is_list |-> TRUE, questions |-> ql] :
            ql \in QuestionLists \cup {<<NonString>>}}

\* Mutant of diagnose_prompt: an empty list of questions is an error.
diagnose_prompt_nonempty(resp) ==
    IF resp.raw = "raise" THEN Raise("Connection error")
    ELSE IF resp.raw = "empty" THEN Raise("LLM returned empty content")
    ELSE IF resp.raw = "notjson" THEN Raise("Failed to parse LLM response as JSON")
    ELSE IF ~resp.has_questions THEN Raise("LLM response missing 'questions' field")
    ELSE IF ~resp.is_list THEN Raise("'questions' field must be a list")
    ELSE IF resp.questions = <<>> THEN Raise("LLM generated no questions")
    ELSE Ok(resp.questions)

diagnose_prompt(resp) ==
    IF resp.raw = "raise" THEN Raise("Connection error")
    ELSE IF resp.raw = "empty" THEN Raise("LLM returned empty content")
    ELSE IF resp.raw = "notjson" THEN Raise("Failed to parse LLM response as JSON")
    ELSE IF ~resp.has_questions THEN Raise("LLM response missing 'questions' field")
    ELSE IF ~resp.is_list THEN Raise("'questions' field must be a list")
    ELSE Ok(resp.questions)

\* ------------------------------------------------------------------------
\* Conversation Engine: values
\* ------------------------------------------------------------------------
\* What the human can type at the console.
HumanInputs == {"ans", "B"}

\* Python None for an options list; a list that is present is never empty here.
NoOptions == <<>>

MinOf(S) == CHOOSE m \in S : \A n \in S : m <= n

MaxOf(S) == CHOOSE m \in S : \A n \in S : m >= n

\* str.strip(): the text without its leading and trailing blanks.
strip(s) ==
    LET solid == {i \in 1..Len(s) : SubSeq(s, i, i) # " "}
    IN IF solid = {} THEN "" ELSE SubSeq(s, MinOf(solid), MaxOf(solid))

\* str.find(marker, start) with positions counted from 1: the first position
\* at or after start where marker occurs, 0 when there is none.
find(text, marker, start) ==
    LET at == {i \in start..(Len(text) - Len(marker) + 1) :
                 SubSeq(text, i, i + Len(marker) - 1) = marker}
    IN IF at = {} THEN 0 ELSE MinOf(at)

\* str.rfind(marker, start): the last such position.
rfind(text, marker, start) ==
    LET at == {i \in start..(Len(text) - Len(marker) + 1) :
                 SubSeq(text, i, i + Len(marker) - 1) = marker}
    IN IF at = {} THEN 0 ELSE MaxOf(at)

\* The pattern's two separators outside ASCII, the full-width comma U+FF0C
\* and the ideographic comma U+3001, are written ";" and "~": no text of the
\* model uses these two characters as themselves.
FULLWIDTH_COMMA == ";"

IDEOGRAPHIC_COMMA == "~"

ascii_lowercase == "abcdefghijklmnopqrstuvwxyz"

ascii_uppercase == "ABCDEFGHIJKLMNOPQRSTUVWXYZ"

CharsOf(s) == {SubSeq(s, i, i) : i \in 1..Len(s)}

\* [A-Za-z]
Letters == CharsOf(ascii_lowercase) \cup CharsOf(ascii_uppercase)

\* The middle dot U+00B7, which the pattern does not list, is written ".".
MIDDLE_DOT == "."

\* Mutant of Separators: the middle dot separates letters too.
Separators_with_middle_dot ==
    {",", FULLWIDTH_COMMA, "/", IDEOGRAPHIC_COMMA, MIDDLE_DOT, " "}

\* [,，/、\s]; the surrounding \s* add nothing to the class.
Separators == {",", FULLWIDTH_COMMA, "/", IDEOGRAPHIC_COMMA, " "}

\* str.upper() of one character
upper(c) ==
    IF c \in CharsOf(ascii_lowercase)
    THEN LET i == find(ascii_lowercase, c, 1) IN SubSeq(ascii_uppercase, i, i)
    ELSE c

\* re.fullmatch(r"[A-Za-z](?:\s*[,，/、\s]+\s*[A-Za-z])*$", raw): letters and
\* separators only, a letter at both ends, no two letters side by side.
fullmatch_letters(raw) ==
    /\ Len(raw) >= 1
    /\ CharsOf(raw) \subseteq Letters \cup Separators
    /\ SubSeq(raw, 1, 1) \in Letters
    /\ SubSeq(raw, Len(raw), Len(raw)) \in Letters
    /\ \A i \in 1..(Len(raw) - 1) :
         ~(SubSeq(raw, i, i) \in Letters /\ SubSeq(raw, i + 1, i + 1) \in Letters)

\* [c.upper() for c in re.findall(r"[A-Za-z]", raw)]
RECURSIVE findall_upper(_)
findall_upper(raw) ==
    IF raw = "" THEN <<>>
    ELSE LET c == SubSeq(raw, 1, 1)
             rest == findall_upper(SubSeq(raw, 2, Len(raw)))
         IN IF c \in Letters THEN <<upper(c)>> \o rest ELSE rest

\* The upper-cased letters of a bare letter selection, <<>> when raw is not one.
letter_codes(raw) ==
    IF fullmatch_letters(raw) THEN findall_upper(raw) ELSE <<>>

\* re.match(r"\s*([A-Za-z])\s*[\)\）]\s*(.*)", opt): letter and stripped text.
option_match(opt) ==
    IF opt = "A) x" THEN [matched |-> TRUE, letter |-> "A", text |-> "x"]
    ELSE IF opt = "B) y" THEN [matched |-> TRUE, letter |-> "B", text |-> "y"]
    ELSE IF opt = "b) x" THEN [matched |-> TRUE, letter |-> "B", text |-> "x"]
    ELSE IF opt = "C)" THEN [matched |-> TRUE, letter |-> "C", text |-> ""]
    ELSE [matched |-> FALSE]

\* An answer as stored in the conversation history: the text, and the option
\* texts of the parenthetical that the expansion appended (<<>> if none).
PlainAnswer(text) == [text |-> text, selected |-> <<>>]

\* option_map of _expand_option_answer: a later option with the same letter wins.
RECURSIVE option_map(_)
option_map(options) ==
    IF options = <<>> THEN <<>>
    ELSE LET last == options[Len(options)]
             rest == option_map(SubSeq(options, 1, Len(options) - 1))
             m == option_match(last)
         IN IF m.matched THEN (m.letter :> m.text) @@ rest ELSE rest

RECURSIVE select_texts(_, _, _)
select_texts(codes, omap, selected) ==
    IF codes = <<>> THEN selected
    ELSE LET code == Head(codes)
             text == IF code \in DOMAIN omap THEN omap[code] ELSE ""
         IN IF text # "" /\ text \notin Range(selected)
            THEN select_texts(Tail(codes), omap, Append(selected, text))
            ELSE select_texts(Tail(codes), omap, selected)

\* Mutant of _expand_option_answer: the answer is kept as typed.
_expand_option_answer_raw(answer, options) == PlainAnswer(answer)

_expand_option_answer(answer, options) ==
    IF answer = "" \/ options = NoOptions THEN PlainAnswer(answer)
    ELSE LET raw == strip(answer) IN
         IF raw = "" THEN PlainAnswer(answer)
         ELSE IF letter_codes(raw) = <<>> THEN PlainAnswer(answer)
         ELSE LET selected == select_texts(letter_codes(raw), option_map(options), <<>>)
              IN IF selected = <<>> THEN PlainAnswer(answer)
                 ELSE [text |-> raw, selected |-> selected]

\* What the LLM gateway can answer to the follow-up decision call.
FollowupJson(nf, fq_kind, fq, opt_kind, opts) ==
    [raw |-> "json", need_followup |-> nf, fq_kind |-> fq_kind, followup_question |-> fq,
     opt_kind |-> opt_kind, options |-> opts]

FollowupResponses ==
    {[raw |-> "raise"], [raw |-> "empty"], [raw |-> "notjson"],
     FollowupJson("absent", "absent", "", "absent", <<>>),
     FollowupJson("nonbool", "absent", "", "absent", <<>>),
     FollowupJson("false", "absent", "", "absent", <<>>),
     FollowupJson("true", "absent", "", "absent", <<>>),
     FollowupJson("true", "nonstr", "", "absent", <<>>),
     FollowupJson("true", "str", " ", "absent", <<>>),
     FollowupJson("true", "str", "FQ", "absent", <<>>),
     FollowupJson("true", "str", "FQ", "nonlist", <<>>),
     FollowupJson("true", "str", "FQ", "list", <<>>),
     FollowupJson("true", "str", "FQ", "list_nonstr", <<"A) x">>),
     FollowupJson("true", "str", "FQ", "list", <<"A) x", "B) y">>)}

NoFollowup == [need_followup |-> FALSE, followup_question |-> "", options |-> NoOptions]

\* _check_followup_needed after the short-circuit: parsing and validating the
\* model's response.
followup_from_response(resp) ==
    IF resp.raw = "raise" THEN Raise("Connection error")
    ELSE IF resp.raw = "empty" THEN Raise("LLM returned empty content")
    ELSE IF resp.raw = "notjson" THEN Raise("Failed to parse LLM response as JSON")
    ELSE IF resp.need_followup = "absent" THEN Raise("LLM response missing 'need_followup' field")
    ELSE IF resp.need_followup = "nonbool" THEN Raise("'need_followup' field must be a boolean")
    ELSE IF resp.need_followup = "true"
    THEN IF resp.fq_kind = "absent" THEN Raise("missing 'followup_question' field")
         ELSE IF resp.fq_kind = "nonstr" THEN Raise("'followup_question' field must be a string")
         ELSE IF strip(resp.followup_question) = "" THEN Raise("LLM generated empty followup question")
         ELSE IF resp.opt_kind = "absent"
         THEN Ok([need_followup |-> TRUE, followup_question |-> resp.followup_question,
                  options |-> NoOptions])
         ELSE IF resp.opt_kind = "nonlist" THEN Raise("'options' field must be a list")
         ELSE IF Len(resp.options) = 0 THEN Raise("LLM generated empty options list")
         ELSE IF resp.opt_kind = "list_nonstr" THEN Raise("Option must be a string")
         ELSE Ok([need_followup |-> TRUE, followup_question |-> resp.followup_question,
                  options |-> resp.options])
    ELSE Ok(NoFollowup)

\* Mutant of _check_followup_needed: a response that cannot be used counts as
\* "no follow-up".
_check_followup_needed_lenient(conversation_history, followup_count, max_followup, resp) ==
    IF followup_count >= max_followup
    THEN [llm |-> FALSE] @@ Ok(NoFollowup)
    ELSE IF followup_from_response(resp).ok
    THEN [llm |-> TRUE] @@ followup_from_response(resp)
    ELSE [llm |-> TRUE] @@ Ok(NoFollowup)

\* Mutant of _check_followup_needed: a follow-up without options is rejected.
_check_followup_needed_requiring_options(conversation_history, followup_count, max_followup, resp) ==
    IF followup_count >= max_followup
    THEN [llm |-> FALSE] @@ Ok(NoFollowup)
    ELSE IF /\ followup_from_response(resp).ok
            /\ followup_from_response(resp).value.need_followup
            /\ followup_from_response(resp).value.options = NoOptions
    THEN [llm |-> TRUE] @@ Raise("LLM response missing 'options' field")
    ELSE [llm |-> TRUE] @@ followup_from_response(resp)

\* Mutant of _check_followup_needed: the ceiling tested with > instead of >=.
_check_followup_needed_strict(conversation_history, followup_count, max_followup, resp) ==
    IF followup_count > max_followup
    THEN [llm |-> FALSE] @@ Ok(NoFollowup)
    ELSE [llm |-> TRUE] @@ followup_from_response(resp)

\* The result also says whether the LLM gateway was called (llm).
_check_followup_needed(conversation_history, followup_count, max_followup, resp) ==
    IF followup_count >= max_followup
    THEN [llm |-> FALSE] @@ Ok(NoFollowup)
    ELSE [llm |-> TRUE] @@ followup_from_response(resp)

\* The compressed answers the model can produce.
CompressedTexts == {"C1", "Q: Q1 A: C2"}

\* What the LLM gateway can answer to the compression call.
CompressResponses ==
    {[raw |-> "raise"], [raw |-> "empty"], [raw |-> "notjson"],
     [raw |-> "json", kind |-> "absent", compressed |-> ""],
     [raw |-> "json", kind |-> "nonstr", compressed |-> ""],
     [raw |-> "json", kind |-> "str", compressed |-> " "],
     [raw |-> "json", kind |-> "str", compressed |-> "C1"],
     [raw |-> "json", kind |-> "str", compressed |-> "Q: Q1 A: C2"]}

\* Mutant of _compress_conversation: a single-turn conversation is not sent to
\* the model, its raw answer is returned.
_compress_conversation_skipping(conversation_history, resp) ==
    IF Len(conversation_history) = 1 THEN Ok(conversation_history[1].answer.text)
    ELSE IF resp.raw = "raise" THEN Raise("Connection error")
    ELSE IF resp.raw = "empty" THEN Raise("LLM returned empty content")
    ELSE IF resp.raw = "notjson" THEN Raise("Failed to parse LLM response as JSON")
    ELSE IF resp.kind = "absent" THEN Raise("LLM response missing 'compressed' field")
    ELSE IF resp.kind = "nonstr" THEN Raise("'compressed' field must be a string")
    ELSE IF strip(resp.compressed) = "" THEN Raise("LLM generated empty compressed Q&A")
    ELSE Ok(resp.compressed)

\* Mutant of _compress_conversation: a blank compressed text is returned.
_compress_conversation_accepting_blank(conversation_history, resp) ==
    IF resp.raw = "raise" THEN Raise("Connection error")
    ELSE IF resp.raw = "empty" THEN Raise("LLM returned empty content")
    ELSE IF resp.raw = "notjson" THEN Raise("Failed to parse LLM response as JSON")
    ELSE IF resp.kind = "absent" THEN Raise("LLM response missing 'compressed' field")
    ELSE IF resp.kind = "nonstr" THEN Raise("'compressed' field must be a string")
    ELSE Ok(resp.compressed)

_compress_conversation(conversation_history, resp) ==
    IF resp.raw = "raise" THEN Raise("Connection error")
    ELSE IF resp.raw = "empty" THEN Raise("LLM returned empty content")
    ELSE IF resp.raw = "notjson" THEN Raise("Failed to parse LLM response as JSON")
    ELSE IF resp.kind = "absent" THEN Raise("LLM response missing 'compressed' field")
    ELSE IF resp.kind = "nonstr" THEN Raise("'compressed' field must be a string")
    ELSE IF strip(resp.compressed) = "" THEN Raise("LLM generated empty compressed Q&A")
    ELSE Ok(resp.compressed)

\* Events of the Conversation Engine
HumanEvent(question, options, answer) ==
    [ev |-> "human", question |-> question, options |-> options, answer |-> answer]

\* One invocation of the follow-up decision step; llm says whether it called
\* the LLM gateway, need_followup what it decided.
FollowupCheckEvent(history, followup_count, r) ==
    [ev |-> "check_followup", history |-> history, followup_count |-> followup_count,
     llm |-> r.llm, ok |-> r.ok, need_followup |-> r.ok /\ r.value.need_followup]

\* One invocation of the compression step, with the gateway's response.
CompressCallEvent(history, resp, r) ==
    [ev |-> "llm_compress", history |-> history, response |-> resp, ok |-> r.ok]

\* ------------------------------------------------------------------------
\* Conversation Engine: QuestioningAgentTool.handle_question_conversation
\* ------------------------------------------------------------------------
Turn(question, answer, options) ==
    [question |-> question, answer |-> answer, options |-> options]

EngineRaise(msg, events) ==
    /\ pc' = "raised"
    /\ error' = msg
    /\ trace' = trace \o events
    /\ UNCHANGED <<local, q_state>>

\* Mutant of hqc_loop_condition: the loop runs once more.
hqc_loop_condition_inclusive(followup_count, max_followup) == followup_count <= max_followup

\* The condition of the follow-up loop of handle_question_conversation.
hqc_loop_condition(followup_count, max_followup) == followup_count < max_followup

hqc_ask_original ==
    /\ engine = "tool"
    /\ pc = "start"
    /\ \E answer \in HumanInputs :
         /\ local' = [conversation_history |->
                          <<Turn(q_state.question, PlainAnswer(answer), NoOptions)>>,
                      followup_count |-> 0,
                      followup_result |-> NoFollowup]
         /\ trace' = Append(trace, HumanEvent(q_state.question, NoOptions, answer))
    /\ pc' = "loop"
    /\ UNCHANGED <<config_vars, main_vars, orchestrator_vars, engine, q_state, error>>

hqc_check_followup ==
    /\ engine = "tool"
    /\ pc = "loop"
    /\ hqc_loop_condition(local.followup_count, q_state.max_followup)
    /\ \E resp \in FollowupResponses :
         LET r == _check_followup_needed(local.conversation_history, local.followup_count,
                                         q_state.max_followup, resp)
             calls == <<FollowupCheckEvent(local.conversation_history,
                                           local.followup_count, r)>>
         IN IF ~r.ok
            THEN EngineRaise(r.error, calls)
            ELSE /\ local' = [local EXCEPT !.followup_result = r.value]
                 /\ pc' = IF r.value.need_followup THEN "followup" ELSE "compress"
                 /\ trace' = trace \o calls
                 /\ UNCHANGED <<q_state, error>>
    /\ UNCHANGED <<config_vars, main_vars, orchestrator_vars, engine>>

hqc_ask_followup ==
    /\ engine = "tool"
    /\ pc = "followup"
    /\ \E answer \in HumanInputs :
         LET followup_question == local.followup_result.followup_question
             followup_options == local.followup_result.options
             followup_answer == _expand_option_answer(answer, followup_options)
         IN /\ local' = [local EXCEPT
                           !.conversation_history =
                               Append(@, Turn(followup_question, followup_answer, followup_options)),
                           !.followup_count = @ + 1]
            /\ trace' = Append(trace, HumanEvent(followup_question, followup_options, answer))
    /\ pc' = "loop"
    /\ UNCHANGED <<config_vars, main_vars, orchestrator_vars, engine, q_state, error>>

hqc_compress ==
    /\ engine = "tool"
    /\ \/ pc = "compress"
       \/ pc = "loop" /\ ~hqc_loop_condition(local.followup_count, q_state.max_followup)
    /\ \E resp \in CompressResponses :
         LET r == _compress_conversation(local.conversation_history, resp)
             call == CompressCallEvent(local.conversation_history, resp, r)
         IN IF ~r.ok
            THEN EngineRaise(r.error, <<call>>)
            ELSE /\ local' = [result |-> r.value] @@ local
                 /\ pc' = "returned"
                 /\ trace' = Append(trace, call)
                 /\ UNCHANGED <<q_state, error>>
    /\ UNCHANGED <<config_vars, main_vars, orchestrator_vars, engine>>

\* ------------------------------------------------------------------------
\* Conversation Engine: QuestioningAgent.ask_question (the node of the agent)
\* ------------------------------------------------------------------------
\* The tool methods the node calls: prompting the human, the follow-up
\* decision on the latest answer, and the compression.
ask_question_and_collect(question, answer) == HumanEvent(question, NoOptions, answer)

should_followup(question, answer, followup_count, max_followup, resp) ==
    _check_followup_needed(<<Turn(question, answer, NoOptions)>>, followup_count,
                           max_followup, resp)

compress_conversation(conversation_history, resp) ==
    _compress_conversation(conversation_history, resp)

\* Mutant of ask_question_loop_condition: the loop stops one turn early.
ask_question_loop_condition_short(current_followup_count, max_followup) ==
    current_followup_count + 1 < max_followup

\* The condition of the follow-up loop of ask_question.
ask_question_loop_condition(current_followup_count, max_followup) ==
    current_followup_count < max_followup

\* Mutants of answer_list_append: the list replaced; the entry appended twice.
answer_list_append_replacing(answer_list, compressed) == <<compressed>>

answer_list_append_twice(answer_list, compressed) ==
    Append(Append(answer_list, compressed), compressed)

\* answer_list.append(compressed)
answer_list_append(answer_list, compressed) == Append(answer_list, compressed)

\* Mutant of ask_question_original: the human is prompted before the index is
\* checked.
ask_question_original_asking_first ==
    /\ engine = "controller"
    /\ pc = "start"
    /\ IF q_state.dialogue_idx >= Len(q_state.question_list)
       THEN \E answer \in HumanInputs :
              EngineRaise("dialogue_idx out of range",
                          <<ask_question_and_collect("Q1", answer)>>)
       ELSE \E answer \in HumanInputs :
              LET current_question == q_state.question_list[q_state.dialogue_idx + 1]
              IN /\ local' = [current_question |-> current_question,
                              conversation_history |->
                                  <<Turn(current_question, PlainAnswer(answer), NoOptions)>>,
                              answer |-> PlainAnswer(answer),
                              followup_count |-> q_state.followup_count,
                              current_followup_count |-> q_state.followup_count,
                              followup_result |-> NoFollowup]
                 /\ trace' = Append(trace, ask_question_and_collect(current_question, answer))
                 /\ pc' = "loop"
                 /\ UNCHANGED <<q_state, error>>
    /\ UNCHANGED <<config_vars, main_vars, orchestrator_vars, engine>>

ask_question_original ==
    /\ engine = "controller"
    /\ pc = "start"
    /\ IF q_state.dialogue_idx >= Len(q_state.question_list)
       THEN EngineRaise("dialogue_idx out of range", <<>>)
       ELSE \E answer \in HumanInputs :
              LET current_question == q_state.question_list[q_state.dialogue_idx + 1]
              IN /\ local' = [current_question |-> current_question,
                              conversation_history |->
                                  <<Turn(current_question, PlainAnswer(answer), NoOptions)>>,
                              answer |-> PlainAnswer(answer),
                              followup_count |-> q_state.followup_count,
                              current_followup_count |-> q_state.followup_count,
                              followup_result |-> NoFollowup]
                 /\ trace' = Append(trace, ask_question_and_collect(current_question, answer))
                 /\ pc' = "loop"
                 /\ UNCHANGED <<q_state, error>>
    /\ UNCHANGED <<config_vars, main_vars, orchestrator_vars, engine>>

ask_question_should_followup ==
    /\ engine = "controller"
    /\ pc = "loop"
    /\ ask_question_loop_condition(local.current_followup_count, max_followup_count)
    /\ \E resp \in FollowupResponses :
         LET r == should_followup(local.current_question, local.answer,
                                  local.current_followup_count, max_followup_count, resp)
             calls == <<FollowupCheckEvent(<<Turn(local.current_question, local.answer,
                                                  NoOptions)>>,
                                           local.current_followup_count, r)>>
         IN IF ~r.ok
            THEN EngineRaise(r.error, calls)
            ELSE /\ local' = [local EXCEPT !.followup_result = r.value]
                 /\ pc' = IF r.value.need_followup THEN "followup" ELSE "compress"
                 /\ trace' = trace \o calls
                 /\ UNCHANGED <<q_state, error>>
    /\ UNCHANGED <<config_vars, main_vars, orchestrator_vars, engine>>

ask_question_followup ==
    /\ engine = "controller"
    /\ pc = "followup"
    /\ \E answer \in HumanInputs :
         LET followup_question == local.followup_result.followup_question
             followup_answer == PlainAnswer(answer)
         IN /\ local' = [local EXCEPT
                           !.current_followup_count = @ + 1,
                           !.conversation_history =
                               Append(@, Turn(followup_question, followup_answer, NoOptions)),
                           !.answer = followup_answer]
            /\ trace' = Append(trace, ask_question_and_collect(followup_question, answer))
    /\ pc' = "loop"
    /\ UNCHANGED <<config_vars, main_vars, orchestrator_vars, engine, q_state, error>>

ask_question_compress ==
    /\ engine = "controller"
    /\ \/ pc = "compress"
       \/ pc = "loop" /\ ~ask_question_loop_condition(local.current_followup_count,
                                                      max_followup_count)
    /\ \E resp \in CompressResponses :
         LET r == compress_conversation(local.conversation_history, resp)
             call == CompressCallEvent(local.conversation_history, resp, r)
         IN IF ~r.ok
            THEN EngineRaise(r.error, <<call>>)
            ELSE /\ q_state' = [q_state EXCEPT
                                  !.answer_list = answer_list_append(@, r.value),
                                  !.followup_count = local.current_followup_count]
                 /\ pc' = "returned"
                 /\ trace' = Append(trace, call)
                 /\ UNCHANGED <<local, error>>
    /\ UNCHANGED <<config_vars, main_vars, orchestrator_vars, engine>>

\* ------------------------------------------------------------------------
\* Integrate sub-agent
\* ------------------------------------------------------------------------
IntegratedPrompts == {"P1", "P2"}

\* A JSON field of the model's answer: absent, not a string, or a string.
Field(kind, v) == [kind |-> kind, v |-> v]

IntegrateJson(cur, imp) == [raw |-> "json", current_prompt |-> cur, improved_prompt |-> imp]

IntegrateResponses ==
    {[raw |-> "raise"], [raw |-> "empty"], [raw |-> "notjson"],
     IntegrateJson(Field("absent", ""), Field("absent", "")),
     IntegrateJson(Field("nonstr", ""), Field("str", "P1")),
     IntegrateJson(Field("str", " "), Field("str", "P1")),
     IntegrateJson(Field("absent", ""), Field("nonstr", "")),
     IntegrateJson(Field("absent", ""), Field("str", " "))}
    \cup {IntegrateJson(Field("str", p), Field("absent", "")) : p \in IntegratedPrompts}
    \cup {IntegrateJson(Field("absent", ""), Field("str", p)) : p \in IntegratedPrompts}

\* An entry of answer_list: a string, or a dict whose keys are among question
\* and answer.
StrItem(text) == [kind |-> "str", text |-> text]

DictItem(d) == [kind |-> "dict", d |-> d]

\* A list of strings, as the engine builds it.
StrItems(answer_list) == [i \in DOMAIN answer_list |-> StrItem(answer_list[i])]

\* Mutant of _split_qa: the text is split at its last "A:".
_split_qa_last_marker(text) ==
    LET q_index == find(text, "Q:", 1)
        a_index == IF q_index = 0 THEN 0 ELSE rfind(text, "A:", q_index + 2)
    IN IF q_index # 0 /\ a_index # 0
       THEN <<strip(SubSeq(text, q_index + 2, a_index - 1)),
              strip(SubSeq(text, a_index + 2, Len(text)))>>
       ELSE <<"", text>>

_split_qa(text) ==
    LET q_index == find(text, "Q:", 1)
        a_index == IF q_index = 0 THEN 0 ELSE find(text, "A:", q_index + 2)
    IN IF q_index # 0 /\ a_index # 0
       THEN <<strip(SubSeq(text, q_index + 2, a_index - 1)),
              strip(SubSeq(text, a_index + 2, Len(text)))>>
       ELSE <<"", text>>

\* The body of the loop of _normalize_answer_list.
_normalize_item(item) ==
    IF item.kind = "dict"
    THEN [question |-> IF "question" \in DOMAIN item.d THEN strip(item.d.question) ELSE "",
          answer |-> IF "answer" \in DOMAIN item.d THEN strip(item.d.answer) ELSE ""]
    ELSE LET text == strip(item.text)
         IN IF text = "" THEN [question |-> "", answer |-> ""]
            ELSE [question |-> _split_qa(text)[1], answer |-> _split_qa(text)[2]]

\* Builds a new list of question/answer objects from the entries.
_normalize_answer_list(answer_list) ==
    [i \in DOMAIN answer_list |-> _normalize_item(answer_list[i])]

\* Mutant of integrate_answers: a current_prompt that is not a usable string
\* gives way to improved_prompt.
integrate_answers_falling_back(system_prompt, current_prompt, answer_list, resp) ==
    IF resp.raw = "raise" THEN Raise("Connection error")
    ELSE IF resp.raw = "empty" THEN Raise("LLM returned empty content")
    ELSE IF resp.raw = "notjson" THEN Raise("Failed to parse LLM response as JSON")
    ELSE IF resp.current_prompt.kind = "absent" /\ resp.improved_prompt.kind = "absent"
    THEN Raise("LLM response missing 'current_prompt' or 'improved_prompt' field")
    ELSE LET improved_prompt == IF /\ resp.current_prompt.kind = "str"
                                   /\ strip(resp.current_prompt.v) # ""
                                THEN resp.current_prompt
                                ELSE resp.improved_prompt
         IN IF improved_prompt.kind # "str" THEN Raise("prompt field must be a string")
            ELSE IF strip(improved_prompt.v) = "" THEN Raise("LLM generated empty prompt field")
            ELSE Ok(improved_prompt.v)

integrate_answers(system_prompt, current_prompt, answer_list, resp) ==
    IF resp.raw = "raise" THEN Raise("Connection error")
    ELSE IF resp.raw = "empty" THEN Raise("LLM returned empty content")
    ELSE IF resp.raw = "notjson" THEN Raise("Failed to parse LLM response as JSON")
    ELSE IF resp.current_prompt.kind = "absent" /\ resp.improved_prompt.kind = "absent"
    THEN Raise("LLM response missing 'current_prompt' or 'improved_prompt' field")
    ELSE LET improved_prompt == IF resp.current_prompt.kind # "absent"
                                THEN resp.current_prompt
                                ELSE resp.improved_prompt
         IN IF improved_prompt.kind # "str" THEN Raise("prompt field must be a string")
            ELSE IF strip(improved_prompt.v) = "" THEN Raise("LLM generated empty prompt field")
            ELSE Ok(improved_prompt.v)

\* ------------------------------------------------------------------------
\* Orchestrator: routing
\* ------------------------------------------------------------------------
\* Mutants of route_after_diagnostic: the test inverted; an empty list sent to
\* Integrate.
route_after_diagnostic_inverted(s) ==
    IF Len(s.question_list) = 0 THEN "call_questioning" ELSE "update_stage"

route_after_diagnostic_integrates(s) ==
    IF Len(s.question_list) = 0 THEN "call_integration" ELSE "call_questioning"

route_after_diagnostic(s) ==
    IF Len(s.question_list) = 0 THEN "update_stage" ELSE "call_questioning"

\* Mutant of route_after_questioning: the last question is left out.
route_after_questioning_early(s) ==
    IF s.dialogue_idx + 1 < Len(s.question_list) THEN "call_questioning" ELSE "call_integration"

route_after_questioning(s) ==
    IF s.dialogue_idx < Len(s.question_list) THEN "call_questioning" ELSE "call_integration"

\* Mutant of route_after_integration: the run ends one stage early.
route_after_integration_early(s) ==
    IF s.stage_idx < Len(stage_names) THEN "init_stage" ELSE "END"

\* Mutant of route_after_integration: one more stage than configured.
route_after_integration_late(s) ==
    IF s.stage_idx <= Len(stage_names) + 1 THEN "init_stage" ELSE "END"

route_after_integration(s) ==
    IF s.stage_idx <= Len(stage_names) THEN "init_stage" ELSE "END"

\* Edges that are not conditional: the node that follows each node.
direct_edges ==
    [init_stage |-> "call_diagnostic",
     call_questioning |-> "increment_dialogue_idx",
     call_integration |-> "update_stage"]

\* Mutant of Abort: the exception is swallowed and the run goes on.
Abort_swallowed(msg, events) ==
    /\ node' = "update_stage"
    /\ error' = msg
    /\ trace' = trace \o events
    /\ UNCHANGED state

\* A node raised: the graph run ends with the exception, the state is kept.
Abort(msg, events) ==
    /\ node' = "ABORT"
    /\ error' = msg
    /\ trace' = trace \o events
    /\ UNCHANGED state

\* ------------------------------------------------------------------------
\* Orchestrator: nodes
\* ------------------------------------------------------------------------
\* Mutant of init_stage_updates: the cursor reset to 1 instead of 0.
init_stage_updates_one_based ==
    [question_list |-> <<>>, answer_list |-> <<>>, dialogue_idx |-> 1, followup_count |-> 0]

\* Mutant of init_stage_updates: the working prompt is reset as well.
init_stage_updates_with_prompt ==
    [question_list |-> <<>>, answer_list |-> <<>>, dialogue_idx |-> 0, followup_count |-> 0,
     current_prompt |-> "P1"]

\* Mutant of init_stage_updates: the answers of the previous stage are kept.
init_stage_updates_keeping_answers ==
    [question_list |-> <<>>,
     answer_list |-> IF "answer_list" \in DOMAIN state THEN state.answer_list ELSE <<>>,
     dialogue_idx |-> 0, followup_count |-> 0]

\* The fields every init_stage resets.
init_stage_updates ==
    [question_list |-> <<>>, answer_list |-> <<>>, dialogue_idx |-> 0, followup_count |-> 0]

init_stage ==
    /\ node = "init_stage"
    /\ LET updates == init_stage_updates
           first == "current_prompt" \notin DOMAIN state \/ state.current_prompt = ""
       IN state' = IF first
                   THEN [current_prompt |-> initial_prompt, stage_idx |-> 1] @@ updates @@ state
                   ELSE updates @@ state
    /\ node' = direct_edges.init_stage
    /\ trace' = Append(trace, [ev |-> "init_stage"])
    /\ UNCHANGED <<config_vars, main_vars, engine_vars, error>>

\* Mutant of call_diagnostic: the sub-agent is called before the stage prompt
\* is looked up.
call_diagnostic_lookup_late ==
    /\ node = "call_diagnostic"
    /\ LET stage_idx == state.stage_idx
           sp == get_system_prompt(stage_idx, "diagnostic")
       IN \E resp \in DiagResponses :
            LET r == diagnose_prompt(resp)
                call == [ev |-> "diagnose", stage |-> stage_idx,
                         system_prompt |-> IF sp.ok THEN sp.value ELSE <<>>,
                         prompt |-> state.current_prompt, response |-> resp, ok |-> r.ok,
                         questions |-> IF r.ok THEN r.value ELSE <<>>]
            IN IF ~r.ok
               THEN Abort(r.error, <<call>>)
               ELSE IF ~sp.ok
               THEN Abort(sp.error, <<call>>)
               ELSE /\ state' = [question_list |-> r.value] @@ state
                    /\ node' = route_after_diagnostic(state')
                    /\ trace' = Append(trace, call)
                    /\ UNCHANGED error
    /\ UNCHANGED <<config_vars, main_vars, engine_vars>>

\* Mutant of call_diagnostic: the cursor is reset along with the new questions.
call_diagnostic_resetting_cursor ==
    /\ node = "call_diagnostic"
    /\ LET stage_idx == state.stage_idx
           sp == get_system_prompt(stage_idx, "diagnostic")
       IN IF ~sp.ok
          THEN Abort(sp.error, <<>>)
          ELSE \E resp \in DiagResponses :
                 LET r == diagnose_prompt(resp)
                     call == [ev |-> "diagnose", stage |-> stage_idx, system_prompt |-> sp.value,
                              prompt |-> state.current_prompt, response |-> resp, ok |-> r.ok,
                              questions |-> IF r.ok THEN r.value ELSE <<>>]
                 IN IF ~r.ok
                    THEN Abort(r.error, <<call>>)
                    ELSE /\ state' = [question_list |-> r.value, dialogue_idx |-> 0] @@ state
                         /\ node' = route_after_diagnostic(state')
                         /\ trace' = Append(trace, call)
                         /\ UNCHANGED error
    /\ UNCHANGED <<config_vars, main_vars, engine_vars>>

call_diagnostic ==
    /\ node = "call_diagnostic"
    /\ LET stage_idx == state.stage_idx
           sp == get_system_prompt(stage_idx, "diagnostic")
       IN IF ~sp.ok
          THEN Abort(sp.error, <<>>)
          ELSE \E resp \in DiagResponses :
                 LET r == diagnose_prompt(resp)
                     call == [ev |-> "diagnose", stage |-> stage_idx, system_prompt |-> sp.value,
                              prompt |-> state.current_prompt, response |-> resp, ok |-> r.ok,
                              questions |-> IF r.ok THEN r.value ELSE <<>>]
                 IN IF ~r.ok
                    THEN Abort(r.error, <<call>>)
                    ELSE /\ state' = [question_list |-> r.value] @@ state
                         /\ node' = route_after_diagnostic(state')
                         /\ trace' = Append(trace, call)
                         /\ UNCHANGED error
    /\ UNCHANGED <<config_vars, main_vars, engine_vars>>

\* The QuestioningAgent sub-graph as the orchestrator sees it: the possible
\* results of one run of its ask_question node on the mapped input fields.
ask_question_results(question_list, dialogue_idx, answer_list, followup_count) ==
    IF dialogue_idx >= Len(question_list)
    THEN {Raise("dialogue_idx out of range")}
    ELSE {Raise("LLM call failed")}
         \cup {Ok([answer_list |-> Append(answer_list, c), followup_count |-> k]) :
                 c \in CompressedTexts,
                 k \in {j \in 0..MaxFollowup :
                          /\ j >= followup_count
                          /\ j <= max_followup_count \/ j = followup_count}}

call_questioning ==
    /\ node = "call_questioning"
    /\ LET stage_idx == state.stage_idx
           entered == [ev |-> "call_questioning", stage |-> stage_idx,
                       dialogue_idx |-> state.dialogue_idx]
           followup == get_system_prompt(stage_idx, "questioning_followup")
           compress == get_system_prompt(stage_idx, "questioning_compress")
       IN IF ~followup.ok
          THEN Abort(followup.error, <<entered>>)
          ELSE IF ~compress.ok
          THEN Abort(compress.error, <<entered>>)
          ELSE \E result \in ask_question_results(state.question_list, state.dialogue_idx,
                                                  state.answer_list, state.followup_count) :
                 LET asked == [ev |-> "questioning", stage |-> stage_idx,
                               dialogue_idx |-> state.dialogue_idx, ok |-> result.ok]
                 IN IF ~result.ok
                    THEN Abort(result.error, <<entered, asked>>)
                    ELSE /\ state' = [answer_list |-> result.value.answer_list,
                                      followup_count |-> result.value.followup_count] @@ state
                         /\ node' = direct_edges.call_questioning
                         /\ trace' = trace \o <<entered, asked>>
                         /\ UNCHANGED error
    /\ UNCHANGED <<config_vars, main_vars, engine_vars>>

\* Mutant of increment_dialogue_idx: the follow-up count is left as it is.
increment_dialogue_idx_keeping_count ==
    /\ node = "increment_dialogue_idx"
    /\ state' = [dialogue_idx |-> state.dialogue_idx + 1] @@ state
    /\ node' = route_after_questioning(state')
    /\ trace' = Append(trace, [ev |-> "increment_dialogue_idx"])
    /\ UNCHANGED <<config_vars, main_vars, engine_vars, error>>

increment_dialogue_idx ==
    /\ node = "increment_dialogue_idx"
    /\ state' = [dialogue_idx |-> state.dialogue_idx + 1, followup_count |-> 0] @@ state
    /\ node' = route_after_questioning(state')
    /\ trace' = Append(trace, [ev |-> "increment_dialogue_idx"])
    /\ UNCHANGED <<config_vars, main_vars, engine_vars, error>>

\* Mutant of call_integration: the entries are replaced in place by the answer
\* part of their normalised form.
call_integration_normalizing_in_place ==
    /\ node = "call_integration"
    /\ LET stage_idx == state.stage_idx
           sp == get_system_prompt(stage_idx, "integration")
       IN IF ~sp.ok
          THEN Abort(sp.error, <<>>)
          ELSE \E resp \in IntegrateResponses :
                 LET r == integrate_answers(sp.value, state.current_prompt,
                                            state.answer_list, resp)
                     call == [ev |-> "integrate", stage |-> stage_idx,
                              system_prompt |-> sp.value, prompt |-> state.current_prompt,
                              answer_list |-> state.answer_list,
                              payload |-> _normalize_answer_list(StrItems(state.answer_list)),
                              response |-> resp, ok |-> r.ok,
                              result |-> IF r.ok THEN r.value ELSE ""]
                 IN IF ~r.ok
                    THEN Abort(r.error, <<call>>)
                    ELSE /\ state' = [current_prompt |-> r.value,
                                      answer_list |-> [i \in DOMAIN call.payload |->
                                                        call.payload[i].answer]] @@ state
                         /\ node' = direct_edges.call_integration
                         /\ trace' = Append(trace, call)
                         /\ UNCHANGED error
    /\ UNCHANGED <<config_vars, main_vars, engine_vars>>

call_integration ==
    /\ node = "call_integration"
    /\ LET stage_idx == state.stage_idx
           sp == get_system_prompt(stage_idx, "integration")
       IN IF ~sp.ok
          THEN Abort(sp.error, <<>>)
          ELSE \E resp \in IntegrateResponses :
                 LET r == integrate_answers(sp.value, state.current_prompt,
                                            state.answer_list, resp)
                     call == [ev |-> "integrate", stage |-> stage_idx,
                              system_prompt |-> sp.value, prompt |-> state.current_prompt,
                              answer_list |-> state.answer_list,
                              payload |-> _normalize_answer_list(StrItems(state.answer_list)),
                              response |-> resp, ok |-> r.ok,
                              result |-> IF r.ok THEN r.value ELSE ""]
                 IN IF ~r.ok
                    THEN Abort(r.error, <<call>>)
                    ELSE /\ state' = [current_prompt |-> r.value] @@ state
                         /\ node' = direct_edges.call_integration
                         /\ trace' = Append(trace, call)
                         /\ UNCHANGED error
    /\ UNCHANGED <<config_vars, main_vars, engine_vars>>

\* Mutant of update_stage: the stage index advances by two.
update_stage_skipping ==
    /\ node = "update_stage"
    /\ state' = [stage_idx |-> state.stage_idx + 2] @@ state
    /\ node' = route_after_integration(state')
    /\ trace' = Append(trace, [ev |-> "update_stage", stage |-> state.stage_idx])
    /\ UNCHANGED <<config_vars, main_vars, engine_vars, error>>

update_stage ==
    /\ node = "update_stage"
    /\ state' = [stage_idx |-> state.stage_idx + 1] @@ state
    /\ node' = route_after_integration(state')
    /\ trace' = Append(trace, [ev |-> "update_stage", stage |-> state.stage_idx])
    /\ UNCHANGED <<config_vars, main_vars, engine_vars, error>>

\* ------------------------------------------------------------------------
\* run_native: what follows the graph run
\* ------------------------------------------------------------------------
\* The output file before the run: missing, or left by an earlier run.
PreviousOutputs == {"absent", "OLD"}

\* (result.get("current_prompt") or "").strip()
output_prompt(result) ==
    IF "current_prompt" \in DOMAIN result THEN strip(result.current_prompt) ELSE ""

\* compiled.invoke returned: the final prompt is checked and written.
run_native_save ==
    /\ main = "invoke"
    /\ node = "END"
    /\ IF output_prompt(state) = ""
       THEN /\ main' = "failed"
            /\ error' = "Final output prompt is empty."
            /\ UNCHANGED output_file
       ELSE /\ main' = "saved"
            /\ output_file' = output_prompt(state)
            /\ UNCHANGED error
    /\ UNCHANGED <<config_vars, orchestrator_vars, engine_vars, trace>>

\* Mutant of run_native_raise: the prompt reached so far is written on an abort.
run_native_raise_saving ==
    /\ main = "invoke"
    /\ node = "ABORT"
    /\ main' = "failed"
    /\ output_file' = output_prompt(state)
    /\ UNCHANGED <<config_vars, orchestrator_vars, engine_vars, trace, error>>

\* compiled.invoke raised: the exception leaves run_native.
run_native_raise ==
    /\ main = "invoke"
    /\ node = "ABORT"
    /\ main' = "failed"
    /\ UNCHANGED <<config_vars, orchestrator_vars, engine_vars, trace, error, output_file>>

Init ==
    /\ stage_names \in {[i \in 1..n |-> i] : n \in 1..MaxStages}
    /\ max_followup_count \in 0..MaxFollowup
    /\ initial_prompt \in InitialPrompts
    /\ config = ConfigOf(stage_names, max_followup_count)
    /\ recursion_limit = DEFAULT_RECURSION_LIMIT
    /\ state = <<>>
    /\ node = "init_stage"
    /\ error = ""
    /\ trace = <<>>
    /\ engine = "none"
    /\ q_state = <<>>
    /\ pc = "idle"
    /\ local = <<>>
    /\ main = "invoke"
    /\ output_file \in PreviousOutputs

Next ==
    \/ init_stage
    \/ call_diagnostic
    \/ call_questioning
    \/ update_stage
    \/ run_native_save
    \/ run_native_raise

Spec == Init /\ [][Next]_vars

\* ------------------------------------------------------------------------
\* The Conversation Engine on its own: one question, entered either through
\* the tool or through the agent's node
\* ------------------------------------------------------------------------
\* The entry states of the Conversation Engine, whatever the limit of the run.
InitEngine ==
    /\ main = "none"
    /\ output_file = "absent"
    /\ stage_names = <<1>>
    /\ max_followup_count \in 0..MaxFollowup
    /\ initial_prompt \in InitialPrompts
    /\ config = ConfigOf(stage_names, max_followup_count)
    /\ state = <<>>
    /\ node = "none"
    /\ error = ""
    /\ trace = <<>>
    /\ engine \in {"tool", "controller"}
    /\ pc = "start"
    /\ local = <<>>
    /\ IF engine = "tool"
       THEN q_state \in {[question |-> q, max_followup |-> max_followup_count] : q \in Questions}
       ELSE /\ q_state \in {[question_list |-> ql, dialogue_idx |-> d, answer_list |-> al,
                             followup_count |-> fc] :
                               ql \in QuestionLists, d \in 0..MaxQuestions,
                               al \in SeqsUpTo(CompressedTexts, MaxQuestions),
                               fc \in 0..max_followup_count}
            /\ Len(q_state.answer_list) <= q_state.dialogue_idx

InitQ == InitEngine /\ recursion_limit = DEFAULT_RECURSION_LIMIT

NextQ ==
    \/ hqc_ask_original
    \/ hqc_check_followup
    \/ hqc_ask_followup
    \/ hqc_compress
    \/ ask_question_original
    \/ ask_question_should_followup
    \/ ask_question_followup
    \/ ask_question_compress

SpecQ == InitQ /\ [][NextQ]_vars

\* ------------------------------------------------------------------------
\* Helpers for the properties
\* ------------------------------------------------------------------------
Has(key) == key \in DOMAIN state

\* Indices of the events of one kind of one stage
EventsOf(kind, k) == {i \in DOMAIN trace : trace[i].ev = kind /\ trace[i].stage = k}

\* The orchestrator has left stage k behind, or the run has ended normally
StageCompleted(k) == Has("stage_idx") /\ (state.stage_idx > k \/ node = "END")

\* Errors raised by the stage-prompt lookup (not by a sub-agent)
LookupErrors ==
    {"stage_idx out of range", "Invalid agent_type", "Stage not found in stage_prompts",
     "Agent type not found for stage"}

\* The run aborted although no sub-agent failed
AbortedWithoutSubAgentFailure == node = "ABORT" /\ error \in LookupErrors

\* dialogue_idx values for which the Conversation Engine ran in stage k, in order
RECURSIVE AskedIn(_, _)
AskedIn(k, n) ==
    IF n = 0 THEN <<>>
    ELSE IF trace[n].ev = "questioning" /\ trace[n].stage = k
         THEN Append(AskedIn(k, n - 1), trace[n].dialogue_idx)
         ELSE AskedIn(k, n - 1)

\* ------------------------------------------------------------------------
\* C1: every update_stage step adds exactly 1 to stage_idx, no step decreases
\* stage_idx, and the run is at END exactly when stage_idx exceeds the number
\* of configured stages (so the final stage_idx is N + 1).
\* ------------------------------------------------------------------------
C1_EndIffPastLastStage ==
    /\ node = "END" => Has("stage_idx") /\ state.stage_idx = Len(stage_names) + 1
    /\ Has("stage_idx") /\ state.stage_idx > Len(stage_names) => node = "END"

C1_StageStep ==
    /\ node = "update_stage" /\ node' # node => state'.stage_idx = state.stage_idx + 1
    /\ Has("stage_idx") => "stage_idx" \in DOMAIN state' /\ state'.stage_idx >= state.stage_idx
    /\ C1_EndIffPastLastStage'

C1_StageMonotonicity == [][C1_StageStep]_vars

C1_Witness ==
    /\ node = "END"
    /\ Len(stage_names) >= 2
    /\ state.stage_idx = Len(stage_names) + 1
    /\ Cardinality({i \in DOMAIN trace : trace[i].ev = "update_stage"}) = Len(stage_names)

\* ------------------------------------------------------------------------
\* C2: in every stage whose diagnosis succeeded and that was not cut short by
\* a failing sub-agent, the Conversation Engine runs once for each question,
\* for dialogue_idx 0, 1, ..., len(question_list) - 1 in this order.
\* ------------------------------------------------------------------------
C2_QuestionExhaustion ==
    \A i \in DOMAIN trace :
        trace[i].ev = "diagnose" /\ trace[i].ok
        /\ (StageCompleted(trace[i].stage) \/ AbortedWithoutSubAgentFailure)
        => AskedIn(trace[i].stage, Len(trace))
             = [j \in 1..Len(trace[i].questions) |-> j - 1]

C9_IntegrateStillInvoked ==
    \A i \in DOMAIN trace :
        trace[i].ev = "diagnose" /\ trace[i].ok /\ trace[i].questions = <<>>
        /\ StageCompleted(trace[i].stage)
        => /\ EventsOf("questioning", trace[i].stage) = {}
           /\ \E j \in EventsOf("integrate", trace[i].stage) : trace[j].answer_list = <<>>

\* C9 as amended: a stage whose diagnosis returned no question never enters
\* call_questioning, never runs the Conversation Engine (so the human is not
\* prompted), and Integrate is not invoked for that stage either.
C9_NoQuestionNoIntegrate ==
    \A i \in DOMAIN trace :
        trace[i].ev = "diagnose" /\ trace[i].ok /\ trace[i].questions = <<>>
        => /\ EventsOf("call_questioning", trace[i].stage) = {}
           /\ EventsOf("questioning", trace[i].stage) = {}
           /\ EventsOf("integrate", trace[i].stage) = {}
           /\ node = "call_questioning" => state.stage_idx # trace[i].stage

C9_Witness ==
    \E i \in DOMAIN trace :
        /\ trace[i].ev = "diagnose" /\ trace[i].ok /\ trace[i].questions = <<>>
        /\ StageCompleted(trace[i].stage)

\* ------------------------------------------------------------------------
\* C10: after a diagnosis that returned no question the next node is
\* update_stage (Integrate is skipped), current_prompt is the prompt that
\* diagnosis received, and the diagnosis of the next stage receives it too.
\* ------------------------------------------------------------------------
C10_EmptyDiagnosisAdvances ==
    \A i \in DOMAIN trace :
        trace[i].ev = "diagnose" /\ trace[i].ok /\ trace[i].questions = <<>>
        => /\ IF i = Len(trace)
              THEN node = "update_stage" /\ state.current_prompt = trace[i].prompt
              ELSE trace[i + 1].ev = "update_stage" /\ trace[i + 1].stage = trace[i].stage
           /\ \A j \in DOMAIN trace :
                 j > i /\ trace[j].ev = "diagnose" /\ trace[j].stage = trace[i].stage + 1
                 => trace[j].prompt = trace[i].prompt

C10_Witness ==
    \E i, j \in DOMAIN trace :
        /\ trace[i].ev = "diagnose" /\ trace[i].ok /\ trace[i].questions = <<>>
        /\ j > i /\ trace[j].ev = "diagnose" /\ trace[j].stage = trace[i].stage + 1
        /\ trace[j].prompt = trace[i].prompt

\* ------------------------------------------------------------------------
\* The follow-up decision step called directly
\* ------------------------------------------------------------------------
check_followup_direct ==
    /\ engine = "check"
    /\ pc = "start"
    /\ \E resp \in FollowupResponses :
         LET r == _check_followup_needed(q_state.conversation_history, q_state.followup_count,
                                         q_state.max_followup, resp)
         IN /\ local' = [result |-> r, response |-> resp]
            /\ trace' = Append(trace, FollowupCheckEvent(q_state.conversation_history,
                                                         q_state.followup_count, r))
            /\ pc' = IF r.ok THEN "returned" ELSE "raised"
            /\ error' = IF r.ok THEN error ELSE r.error
    /\ UNCHANGED <<config_vars, main_vars, orchestrator_vars, engine, q_state>>

Histories ==
    {<<Turn(q, PlainAnswer(a), NoOptions)>> : q \in Questions, a \in HumanInputs}
    \cup {<<Turn(q, PlainAnswer("ans"), NoOptions),
            Turn("FQ", _expand_option_answer(a, <<"A) x", "B) y">>), <<"A) x", "B) y">>)>> :
              q \in Questions, a \in HumanInputs}

InitCheck ==
    /\ main = "none"
    /\ output_file = "absent"
    /\ stage_names = <<1>>
    /\ max_followup_count \in 0..MaxFollowup
    /\ initial_prompt \in InitialPrompts
    /\ config = ConfigOf(stage_names, max_followup_count)
    /\ recursion_limit = DEFAULT_RECURSION_LIMIT
    /\ state = <<>>
    /\ node = "none"
    /\ error = ""
    /\ trace = <<>>
    /\ engine = "check"
    /\ pc = "start"
    /\ local = <<>>
    /\ q_state \in {[conversation_history |-> h, followup_count |-> c,
                     max_followup |-> max_followup_count] :
                       h \in Histories, c \in 0..(MaxFollowup + 1)}

NextCheck == check_followup_direct

SpecCheck == InitCheck /\ [][NextCheck]_vars

\* ------------------------------------------------------------------------
\* Helpers for the properties of the Conversation Engine
\* ------------------------------------------------------------------------
HumanPrompts == {i \in DOMAIN trace : trace[i].ev = "human"}

FollowupChecks == {i \in DOMAIN trace : trace[i].ev = "check_followup"}

Compressions == {i \in DOMAIN trace : trace[i].ev = "llm_compress"}

\* The value the engine hands back for the question
EngineOutput ==
    IF engine = "tool" THEN local.result ELSE q_state.answer_list[Len(q_state.answer_list)]

\* ------------------------------------------------------------------------
\* C3: for one question the human is asked at most max_followup_count
\* follow-up questions, and the follow-up decision step is never invoked (so
\* it makes no LLM call) with a follow-up count that has reached the maximum.
\* ------------------------------------------------------------------------
C3_FollowupCeiling ==
    /\ Cardinality(HumanPrompts) <= 1 + max_followup_count
    /\ \A i \in FollowupChecks : trace[i].followup_count < max_followup_count

C3_Witness ==
    /\ pc = "returned"
    /\ engine = "tool"
    /\ max_followup_count = 2
    /\ Cardinality(HumanPrompts) = 3
    /\ Cardinality(FollowupChecks) = 2

\* ------------------------------------------------------------------------
\* C4: _check_followup_needed called with followup_count >= max_followup
\* returns need_followup = false, no follow-up question and no options, and
\* does not call the LLM gateway, whatever the conversation history.
\* ------------------------------------------------------------------------
C4_ShortCircuitAtMax ==
    engine = "check" /\ pc # "start" /\ q_state.followup_count >= q_state.max_followup
    => /\ pc = "returned"
       /\ local.result.value = NoFollowup
       /\ ~local.result.llm
       /\ \A i \in FollowupChecks : ~trace[i].llm

C4_Witness ==
    /\ engine = "check"
    /\ pc = "returned"
    /\ q_state.followup_count = q_state.max_followup
    /\ Len(q_state.conversation_history) = 2
    /\ ~local.result.llm

\* ------------------------------------------------------------------------
\* C5: a question that the engine completes was compressed exactly once, as
\* the last step, over the whole conversation (every human answer precedes
\* it), and the value handed back is the compressed string of the model's
\* response; no compression happens before the follow-up loop has ended.
\* ------------------------------------------------------------------------
C5_CompressedExactlyOnce ==
    /\ pc \notin {"returned", "raised"} => Compressions = {}
    /\ pc = "raised" => Cardinality(Compressions) <= 1
    /\ pc = "returned" =>
         /\ Compressions = {Len(trace)}
         /\ trace[Len(trace)].history = local.conversation_history
         /\ Len(local.conversation_history) = Cardinality(HumanPrompts)
         /\ trace[Len(trace)].response.raw = "json"
         /\ trace[Len(trace)].response.kind = "str"
         /\ EngineOutput = trace[Len(trace)].response.compressed

C5_Witness ==
    /\ pc = "returned"
    /\ Cardinality(HumanPrompts) = 1
    /\ Cardinality(FollowupChecks) = 1
    /\ Cardinality(Compressions) = 1

\* ------------------------------------------------------------------------
\* C6: completing a question appends exactly one entry at the end of
\* answer_list and leaves the earlier entries as they were; no other step of
\* the engine changes answer_list.
\* ------------------------------------------------------------------------
C6_Step ==
    engine = "controller" =>
        IF pc # "returned" /\ pc' = "returned"
        THEN /\ Len(q_state'.answer_list) = Len(q_state.answer_list) + 1
             /\ SubSeq(q_state'.answer_list, 1, Len(q_state.answer_list)) = q_state.answer_list
        ELSE q_state'.answer_list = q_state.answer_list

C6_AnswerListAppendOnly == [][C6_Step]_vars

C6_Witness ==
    /\ engine = "controller"
    /\ pc = "returned"
    /\ Len(q_state.answer_list) = 2
    /\ q_state.dialogue_idx = 1

IntegrateCalls == {i \in DOMAIN trace : trace[i].ev = "integrate"}

QuestionsWereProduced ==
    \E i \in DOMAIN trace :
        trace[i].ev = "diagnose" /\ trace[i].ok /\ trace[i].questions # <<>>

C11_FinalPromptIsLastIntegrate ==
    (node = "END" \/ AbortedWithoutSubAgentFailure) /\ QuestionsWereProduced
    => /\ node = "END"
       /\ state.stage_idx = Len(stage_names) + 1
       /\ \E j \in IntegrateCalls :
            /\ \A k \in IntegrateCalls : k <= j
            /\ trace[j].ok
            /\ state.current_prompt = trace[j].result

\* ------------------------------------------------------------------------
\* C12: a question entered with a follow-up count of 0 for which every
\* follow-up decision answered need_followup = true ends with exactly
\* max_followup_count decisions and follow-up turns, 1 + max_followup_count
\* human prompts, and then the compression.
\* ------------------------------------------------------------------------
EnteredWithZeroCount == engine = "tool" \/ local.followup_count = 0

AlwaysNeedFollowup == \A i \in FollowupChecks : trace[i].need_followup

C12_AlwaysFollowupUsesAllowance ==
    pc = "returned" /\ EnteredWithZeroCount /\ AlwaysNeedFollowup
    => /\ Cardinality(FollowupChecks) = max_followup_count
       /\ Cardinality(HumanPrompts) = 1 + max_followup_count
       /\ Len(local.conversation_history) = 1 + max_followup_count
       /\ Compressions = {Len(trace)}

C12_Witness ==
    /\ pc = "returned"
    /\ engine = "controller"
    /\ local.followup_count = 0
    /\ max_followup_count = 1
    /\ AlwaysNeedFollowup
    /\ Cardinality(FollowupChecks) = 1
    /\ Cardinality(HumanPrompts) = 2

\* ------------------------------------------------------------------------
\* The nodes of the orchestrator called one at a time on a given state
\* ------------------------------------------------------------------------
NodeNames ==
    {"init_stage", "call_diagnostic", "call_questioning", "increment_dialogue_idx",
     "call_integration", "update_stage"}

\* States a node can be handed: every field present, the stage index also
\* just outside 1..N, the prompt also empty.
NodeStates ==
    {[current_prompt |-> p, stage_idx |-> k, question_list |-> ql, answer_list |-> al,
      dialogue_idx |-> d, followup_count |-> fc] :
        p \in {""} \cup InitialPrompts \cup {"P1"},
        k \in 0..(MaxStages + 1),
        ql \in QuestionLists,
        al \in SeqsUpTo(CompressedTexts, MaxQuestions),
        d \in 0..MaxQuestions,
        fc \in {0, MaxFollowup}}

InitNodes ==
    /\ main = "none"
    /\ output_file = "absent"
    /\ stage_names = [i \in 1..MaxStages |-> i]
    /\ max_followup_count = MaxFollowup
    /\ initial_prompt \in InitialPrompts
    /\ config = ConfigOf(stage_names, max_followup_count)
    /\ recursion_limit = DEFAULT_RECURSION_LIMIT
    /\ node \in NodeNames
    /\ state \in NodeStates \cup {<<>>}
    /\ state = <<>> => node = "init_stage"
    /\ error = ""
    /\ trace = <<>>
    /\ engine = "unit"
    /\ q_state = <<>>
    /\ pc = "idle"
    /\ local = <<>>

\* The node has not been called yet
unit_call == engine = "unit" /\ trace = <<>> /\ error = ""

NextNodes ==
    \/ unit_call /\ init_stage
    \/ unit_call /\ call_diagnostic
    \/ unit_call /\ call_questioning
    \/ unit_call /\ increment_dialogue_idx
    \/ unit_call /\ call_integration
    \/ unit_call /\ update_stage

SpecNodes == InitNodes /\ [][NextNodes]_vars

\* ------------------------------------------------------------------------
\* _expand_option_answer called directly
\* ------------------------------------------------------------------------
ExpandAnswers ==
    {"", " ", "ans", "B", "b", " B ", "a,b", "B/B", "Z", " Z ", "B b", "a, b", "B,",
     "a" \o IDEOGRAPHIC_COMMA \o "b", "a" \o FULLWIDTH_COMMA \o "b",
     "a" \o MIDDLE_DOT \o "b"}

ExpandOptions == SeqsUpTo({"A) x", "B) y", "b) x", "C)", "junk"}, 2)

InitExpand ==
    /\ main = "none"
    /\ output_file = "absent"
    /\ stage_names = <<1>>
    /\ max_followup_count = 0
    /\ initial_prompt \in InitialPrompts
    /\ config = ConfigOf(stage_names, max_followup_count)
    /\ recursion_limit = DEFAULT_RECURSION_LIMIT
    /\ state = <<>>
    /\ node = "none"
    /\ error = ""
    /\ trace = <<>>
    /\ engine = "expand"
    /\ pc = "start"
    /\ local = <<>>
    /\ q_state \in {[answer |-> a, options |-> o] : a \in ExpandAnswers, o \in ExpandOptions}

expand_direct ==
    /\ engine = "expand"
    /\ pc = "start"
    /\ local' = [result |-> _expand_option_answer(q_state.answer, q_state.options)]
    /\ trace' = Append(trace, [ev |-> "expand"])
    /\ pc' = "returned"
    /\ UNCHANGED <<config_vars, main_vars, orchestrator_vars, engine, q_state, error>>

\* ------------------------------------------------------------------------
\* _normalize_answer_list called directly on lists of strings and dicts
\* ------------------------------------------------------------------------
NormalizeTexts ==
    {"C1", " ", "Q: Q1 A: C2", " Q:Q1 A:C2 ", "Q: Q1", "A: C2",
     "A: x Q: Q1 A: C2", "Q: Q1 A: C2 A: D"}

NormalizeDicts ==
    {[question |-> "Q1", answer |-> "C2"], [question |-> " Q1 ", answer |-> " "],
     [answer |-> "C2"]}

NormalizeItems ==
    {StrItem(t) : t \in NormalizeTexts} \cup {DictItem(d) : d \in NormalizeDicts}

InitNormalize ==
    /\ main = "none"
    /\ output_file = "absent"
    /\ stage_names = <<1>>
    /\ max_followup_count = 0
    /\ initial_prompt \in InitialPrompts
    /\ config = ConfigOf(stage_names, max_followup_count)
    /\ recursion_limit = DEFAULT_RECURSION_LIMIT
    /\ state = <<>>
    /\ node = "none"
    /\ error = ""
    /\ trace = <<>>
    /\ engine = "normalize"
    /\ pc = "start"
    /\ local = <<>>
    /\ q_state \in {[answer_list |-> al] : al \in SeqsUpTo(NormalizeItems, MaxQuestions)}

normalize_direct ==
    /\ engine = "normalize"
    /\ pc = "start"
    /\ local' = [result |-> _normalize_answer_list(q_state.answer_list)]
    /\ trace' = Append(trace, [ev |-> "normalize"])
    /\ pc' = "returned"
    /\ UNCHANGED <<config_vars, main_vars, orchestrator_vars, engine, q_state, error>>

\* ------------------------------------------------------------------------
\* Every entry point together: the whole run, the Conversation Engine for one
\* question, the nodes called one at a time, the follow-up decision step and
\* the option expansion
\* ------------------------------------------------------------------------
InitAll == Init \/ InitQ \/ InitNodes \/ InitExpand \/ InitCheck \/ InitNormalize

whole_run == engine = "none"

NextAll ==
    \/ whole_run /\ init_stage
    \/ whole_run /\ call_diagnostic
    \/ whole_run /\ call_questioning
    \/ whole_run /\ update_stage
    \/ run_native_save
    \/ run_native_raise
    \/ hqc_ask_original
    \/ hqc_check_followup
    \/ hqc_ask_followup
    \/ hqc_compress
    \/ ask_question_original
    \/ ask_question_should_followup
    \/ ask_question_followup
    \/ ask_question_compress
    \/ unit_call /\ init_stage
    \/ unit_call /\ call_diagnostic
    \/ unit_call /\ call_questioning
    \/ unit_call /\ increment_dialogue_idx
    \/ unit_call /\ call_integration
    \/ unit_call /\ update_stage
    \/ expand_direct
    \/ check_followup_direct
    \/ normalize_direct

SpecAll == InitAll /\ [][NextAll]_vars

\* ------------------------------------------------------------------------
\* C13: a failed sub-agent call (Diagnose, follow-up decision, compression,
\* Integrate) is the last thing that happens: it is never followed by another
\* LLM call, human prompt or retry, the run or the engine is left with the
\* exception, and neither END nor a normal return is reached.
\* ------------------------------------------------------------------------
SubAgentCallKinds == {"diagnose", "check_followup", "llm_compress", "integrate"}

FailedCalls == {i \in DOMAIN trace : trace[i].ev \in SubAgentCallKinds /\ ~trace[i].ok}

C13_FailureAbortsRun ==
    \A i \in FailedCalls :
        /\ i = Len(trace)
        /\ node = "ABORT" \/ pc = "raised"
        /\ node # "END"
        /\ pc # "returned"
        /\ main \notin {"saved"}
        /\ error # ""

C13_Witness ==
    /\ engine = "none"
    /\ node = "ABORT"
    /\ state.stage_idx = 2
    /\ trace[Len(trace)].ev = "diagnose"
    /\ ~trace[Len(trace)].ok
    /\ main = "failed"

\* ------------------------------------------------------------------------
\* C14: the output file is written only by the step that follows a normal
\* return of the graph run (END) with a non-empty final prompt, and then with
\* that prompt; no other step, in particular none of an aborted run, changes
\* the file, so it keeps what it held before the run.
\* ------------------------------------------------------------------------
C14_Step ==
    /\ output_file' # output_file
       => /\ node = "END"
          /\ main = "invoke" /\ main' = "saved"
          /\ strip(state.current_prompt) # ""
          /\ output_file' = strip(state.current_prompt)
    /\ node' = "ABORT" \/ main' = "failed" => output_file' = output_file

C14_OutputOnlyAfterNormalEnd == [][C14_Step]_vars

C14_Witness ==
    /\ main = "saved"
    /\ node = "END"
    /\ Len(stage_names) >= 2
    /\ output_file = state.current_prompt
    /\ output_file \notin PreviousOutputs

\* ------------------------------------------------------------------------
\* C15: when the stage-prompt lookup of a node fails (stage index outside
\* 1..N, or a prompt type that get_system_prompt does not serve), the node
\* ends the run with the lookup's error, leaves the state as it was, and
\* neither calls a sub-agent or the LLM nor prompts the human.
\* ------------------------------------------------------------------------
LookupFails ==
    \/ /\ node = "call_diagnostic"
       /\ ~get_system_prompt(state.stage_idx, "diagnostic").ok
    \/ /\ node = "call_questioning"
       /\ \/ ~get_system_prompt(state.stage_idx, "questioning_followup").ok
          \/ ~get_system_prompt(state.stage_idx, "questioning_compress").ok
    \/ /\ node = "call_integration"
       /\ ~get_system_prompt(state.stage_idx, "integration").ok

C15_Step ==
    LookupFails /\ node' # node
    => /\ node' = "ABORT"
       /\ error' \in LookupErrors
       /\ state' = state
       /\ \A i \in DOMAIN trace' :
            i > Len(trace) => trace'[i].ev \notin SubAgentCallKinds \cup {"questioning", "human"}

C15_LookupFailureBeforeSubAgent == [][C15_Step]_vars

C15_Witness ==
    /\ engine = "unit"
    /\ node = "ABORT"
    /\ error = "stage_idx out of range"
    /\ state.stage_idx = Len(stage_names) + 1
    /\ state.question_list # <<>>
    /\ trace = <<>>

\* ------------------------------------------------------------------------
\* C16: Diagnose and Integrate are handed the current_prompt of the state;
\* only a successful Integrate changes a non-empty current_prompt, to its
\* result. So in a whole run the diagnosis of every stage receives the result
\* of the most recent Integrate, or the initial prompt if there was none, and
\* an Integrate receives what the diagnosis of its stage received.
\* ------------------------------------------------------------------------
LastIntegrateBefore(i) ==
    LET earlier == {j \in IntegrateCalls : j < i /\ trace[j].ok}
    IN IF earlier = {} THEN 0 ELSE CHOOSE j \in earlier : \A k \in earlier : k <= j

C16_PromptFlow ==
    engine = "none" =>
        \A i \in DOMAIN trace :
            /\ trace[i].ev = "diagnose" =>
                 trace[i].prompt = IF LastIntegrateBefore(i) = 0 THEN initial_prompt
                                   ELSE trace[LastIntegrateBefore(i)].result
            /\ trace[i].ev = "integrate" =>
                 \A d \in 1..(i - 1) :
                     trace[d].ev = "diagnose" /\ trace[d].stage = trace[i].stage
                     => trace[d].prompt = trace[i].prompt

C16_Step ==
    /\ \A i \in DOMAIN trace' :
         i > Len(trace) /\ trace'[i].ev \in {"diagnose", "integrate"}
         => trace'[i].prompt = state.current_prompt
    /\ Has("current_prompt") /\ state.current_prompt # "" /\ node # "call_integration"
       => state'.current_prompt = state.current_prompt
    /\ node = "call_integration" /\ node' = "update_stage"
       => /\ trace'[Len(trace')].ev = "integrate"
          /\ state'.current_prompt = trace'[Len(trace')].result
    /\ C16_PromptFlow'

C16_PromptHandedOn == [][C16_Step]_vars

C16_Witness ==
    /\ engine = "none"
    /\ \E i \in DOMAIN trace :
         /\ trace[i].ev = "diagnose"
         /\ trace[i].stage = 2
         /\ trace[i].prompt = initial_prompt
         /\ LastIntegrateBefore(i) = 0

\* ------------------------------------------------------------------------
\* C17: the stages for which Diagnose has been invoked are 1, 2, ..., m in
\* this order, each once and each with the diagnostic prompt of its stage;
\* when the run has ended normally m is the number of configured stages.
\* ------------------------------------------------------------------------
RECURSIVE DiagnosedStages(_)
DiagnosedStages(n) ==
    IF n = 0 THEN <<>>
    ELSE IF trace[n].ev = "diagnose"
         THEN Append(DiagnosedStages(n - 1), trace[n].stage)
         ELSE DiagnosedStages(n - 1)

C17_EveryStageDiagnosedOnce ==
    engine = "none" =>
        LET diagnosed == DiagnosedStages(Len(trace))
        IN /\ diagnosed = [k \in 1..Len(diagnosed) |-> k]
           /\ Len(diagnosed) <= Len(stage_names)
           /\ node = "END" => Len(diagnosed) = Len(stage_names)
           /\ \A i \in DOMAIN trace :
                trace[i].ev = "diagnose"
                => trace[i].system_prompt
                     = stage_prompts[stage_names[trace[i].stage]]["diagnostic"]

C17_Witness ==
    /\ engine = "none"
    /\ node = "END"
    /\ Len(stage_names) >= 3
    /\ DiagnosedStages(Len(trace)) = [k \in 1..Len(stage_names) |-> k]

\* ------------------------------------------------------------------------
\* C18: every init_stage step leaves question_list = [], answer_list = [],
\* dialogue_idx = 0 and followup_count = 0; entered with the empty state it
\* also sets current_prompt to the initial prompt and stage_idx to 1.
\* ------------------------------------------------------------------------
C18_Step ==
    node = "init_stage" /\ node' # node
    => /\ state'.question_list = <<>>
       /\ state'.answer_list = <<>>
       /\ state'.dialogue_idx = 0
       /\ state'.followup_count = 0
       /\ state = <<>> => state'.current_prompt = initial_prompt /\ state'.stage_idx = 1

C18_InitStageResets == [][C18_Step]_vars

C18_Witness ==
    /\ engine = "unit"
    /\ trace = <<[ev |-> "init_stage"]>>
    /\ node = "call_diagnostic"
    /\ state.stage_idx = 2
    /\ state.current_prompt = "P1"
    /\ state.answer_list = <<>>

\* ------------------------------------------------------------------------
\* C19: every invocation of the follow-up decision step receives the whole
\* conversation of the question so far, in order: the original turn and every
\* follow-up turn already answered.
\* ------------------------------------------------------------------------
C19_DecisionSeesWholeHistory ==
    \A i \in FollowupChecks :
        /\ Len(trace[i].history) = Cardinality({j \in HumanPrompts : j < i})
        /\ trace[i].history = SubSeq(local.conversation_history, 1, Len(trace[i].history))

\* ------------------------------------------------------------------------
\* C20: an answer that is a bare selection of letters, given to a follow-up
\* that offered options, is recorded as the stripped answer followed by the
\* texts of the options the letters name (letters compared without regard to
\* case, each text once, in the order of its first letter); any other answer
\* is recorded as typed. The recorded answer is what later follow-up
\* decisions and the compression receive.
\* ------------------------------------------------------------------------
\* The text of the option a letter names: the last option with that letter.
LetterText(letter, options) ==
    LET ks == {k \in DOMAIN options :
                 option_match(options[k]).matched /\ option_match(options[k]).letter = letter}
    IN IF ks = {} THEN ""
       ELSE option_match(options[CHOOSE k \in ks : \A m \in ks : m <= k]).text

FirstCodeOf(text, codes, options) ==
    CHOOSE p \in DOMAIN codes :
        /\ LetterText(codes[p], options) = text
        /\ \A q \in DOMAIN codes : LetterText(codes[q], options) = text => p <= q

IsExpansionOf(recorded, answer, options) ==
    LET codes == letter_codes(strip(answer))
        texts == {LetterText(codes[p], options) : p \in DOMAIN codes} \ {""}
    IN IF options = <<>> \/ texts = {}
       THEN recorded = [text |-> answer, selected |-> <<>>]
       ELSE /\ recorded.text = strip(answer)
            /\ Range(recorded.selected) = texts
            /\ Len(recorded.selected) = Cardinality(texts)
            /\ \A p, q \in DOMAIN recorded.selected :
                 p < q => FirstCodeOf(recorded.selected[p], codes, options)
                            < FirstCodeOf(recorded.selected[q], codes, options)

\* The position in the conversation of the turn that human prompt i opened
TurnOf(i) == Cardinality({j \in HumanPrompts : j <= i})

UnusableDecision(resp) ==
    \/ resp.raw = "notjson"
    \/ /\ resp.raw = "json"
       /\ \/ resp.need_followup \in {"absent", "nonbool"}
          \/ /\ resp.need_followup = "true"
             /\ \/ resp.fq_kind # "str"
                \/ resp.followup_question \in {"", " "}

ModelConsulted == engine = "check" /\ pc # "start" /\ local.result.llm

C21_UnusableDecisionRaises ==
    ModelConsulted /\ UnusableDecision(local.response)
    => /\ pc = "raised"
       /\ ~local.result.ok
       /\ "value" \notin DOMAIN local.result
       /\ error # ""

C21_Witness ==
    /\ ModelConsulted
    /\ local.response.raw = "json"
    /\ local.response.need_followup = "true"
    /\ local.response.fq_kind = "str"
    /\ local.response.followup_question = " "
    /\ pc = "raised"

\* ------------------------------------------------------------------------
\* C22: a decision response with need_followup = true, a non-empty
\* followup_question and no options field is accepted, the step returns
\* need_followup = true with that question and no options; and the engine
\* puts the follow-up of a decision to the human with exactly the options of
\* the decision, so with none for such a decision.
\* ------------------------------------------------------------------------
OpenEndedDecision(resp) ==
    /\ resp.raw = "json"
    /\ resp.need_followup = "true"
    /\ resp.fq_kind = "str"
    /\ resp.followup_question \notin {"", " "}
    /\ resp.opt_kind = "absent"

EmptyListResponse(resp) ==
    /\ resp.raw = "json"
    /\ resp.has_questions
    /\ resp.is_list
    /\ resp.questions = <<>>

C24_Step ==
    (/\ node = "call_integration"
     /\ Len(trace') = Len(trace) + 1
     /\ trace'[Len(trace')].ev = "integrate")
    => /\ trace'[Len(trace')].answer_list = state.answer_list
       /\ "answer_list" \in DOMAIN state'
       /\ state'.answer_list = state.answer_list

C24_AnswerListUntouched == [][C24_Step]_vars

\* A failed integration of two answers, one of which the payload splits into
\* its question and its answer.
C24_Witness ==
    /\ node = "ABORT"
    /\ \E i \in DOMAIN trace :
         /\ trace[i].ev = "integrate"
         /\ ~trace[i].ok
         /\ Len(trace[i].answer_list) = 2
         /\ trace[i].payload[2] = [question |-> "Q1", answer |-> "C2"]
         /\ state.answer_list = trace[i].answer_list

\* The same after a successful integration.
C24_WitnessSuccess ==
    /\ node = "update_stage"
    /\ \E i \in DOMAIN trace :
         /\ trace[i].ev = "integrate"
         /\ trace[i].ok
         /\ trace[i].payload = <<[question |-> "Q1", answer |-> "C2"]>>
         /\ state.answer_list = <<"Q: Q1 A: C2">>

\* ------------------------------------------------------------------------
\* Start-up: run_native builds the Orchestrator, whose tool loads and
\* validates config.json, then invokes the compiled graph.
\* ------------------------------------------------------------------------
\* A dict without the key k.
Drop(f, k) == [x \in DOMAIN f \ {k} |-> f[x]]

\* The path of a prompt file that does not exist.
NoFile == <<0, "nofile">>

BaseConfig == ConfigOf(<<1, 2>>, 1)

\* config.json files: the valid ones, and a valid one spoilt in one place.
ConfigFiles ==
    {ConfigOf([i \in 1..n |-> i], m) : n \in 1..MaxStages, m \in 0..MaxFollowup}
    \cup {Drop(BaseConfig, f) : f \in {"max_followup_count", "stage_names", "stage_prompts"}}
    \cup {[BaseConfig EXCEPT !.stage_prompts = Drop(@, 2)],
          [BaseConfig EXCEPT !.stage_names = <<1>>],
          [BaseConfig EXCEPT !.stage_prompts[1]["diagnostic"] = NoFile]}
    \cup {[BaseConfig EXCEPT !.stage_prompts[2] = Drop(@, t)] : t \in required_prompt_types}

\* config.get("stage_prompts", {}) with every path replaced by the content of
\* its file; a missing file raises.
load_config(file) ==
    LET paths == IF "stage_prompts" \in DOMAIN file THEN file.stage_prompts ELSE <<>>
    IN IF \E n \in DOMAIN paths : \E t \in DOMAIN paths[n] : paths[n][t] = NoFile
       THEN Raise("Prompt file not found")
       ELSE Ok([stage_prompts |-> paths] @@ file)

\* Mutant of validate_config: the prompt types of the stages are not checked.
validate_config_names_only(cfg) ==
    IF \E f \in {"max_followup_count", "stage_names", "stage_prompts"} : f \notin DOMAIN cfg
    THEN Raise("Missing required config field")
    ELSE IF Range(cfg.stage_names) # DOMAIN cfg.stage_prompts
    THEN Raise("Stage names and prompt stages mismatch.")
    ELSE Ok(TRUE)

validate_config(cfg) ==
    IF \E f \in {"max_followup_count", "stage_names", "stage_prompts"} : f \notin DOMAIN cfg
    THEN Raise("Missing required config field")
    ELSE IF Range(cfg.stage_names) # DOMAIN cfg.stage_prompts
    THEN Raise("Stage names and prompt stages mismatch.")
    ELSE IF \E n \in DOMAIN cfg.stage_prompts :
              \E t \in required_prompt_types : t \notin DOMAIN cfg.stage_prompts[n]
    THEN Raise("Missing prompt for stage")
    ELSE Ok(TRUE)

\* OrchestratorTool.__init__: the attributes the tool ends up with, or the
\* exception of load_config or validate_config.
OrchestratorTool_init(file) ==
    LET loaded == load_config(file)
    IN IF ~loaded.ok THEN loaded
       ELSE LET checked == validate_config(loaded.value)
            IN IF ~checked.ok THEN checked ELSE Ok(loaded.value)

\* The values of PROMPT_AGENT_RECURSION_LIMIT: unset, not a number, numbers.
EnvLimits ==
    {[kind |-> "unset"], [kind |-> "junk"]}
    \cup {[kind |-> "int", value |-> v] : v \in {-1, 0, 1, 4}}

resolve_recursion_limit(env) ==
    IF env.kind = "int" /\ env.value > 0 THEN env.value ELSE DEFAULT_RECURSION_LIMIT

\* run_native up to compiled.invoke.
run_native_start ==
    /\ main = "start"
    /\ LET tool == OrchestratorTool_init(config)
       IN IF ~tool.ok
          THEN /\ main' = "failed"
               /\ error' = tool.error
               /\ UNCHANGED <<stage_names, max_followup_count, recursion_limit, node>>
          ELSE /\ stage_names' = tool.value.stage_names
               /\ max_followup_count' = tool.value.max_followup_count
               /\ \E env \in EnvLimits : recursion_limit' = resolve_recursion_limit(env)
               /\ main' = "invoke"
               /\ node' = "init_stage"
               /\ UNCHANGED error
    /\ UNCHANGED <<initial_prompt, config, state, trace, engine_vars, output_file>>

\* Node executions that returned.
steps ==
    Cardinality({i \in DOMAIN trace :
        \/ trace[i].ev \in {"init_stage", "update_stage", "increment_dialogue_idx"}
        \/ trace[i].ev \in {"diagnose", "questioning", "integrate"} /\ trace[i].ok})

within_limit == steps < recursion_limit

\* The graph has not ended within the limit: compiled.invoke raises.
graph_recursion_error ==
    /\ node \notin {"none", "END", "ABORT"}
    /\ ~within_limit
    /\ node' = "ABORT"
    /\ error' = "GraphRecursionError"
    /\ UNCHANGED <<config_vars, main_vars, engine_vars, state, trace>>

InitStart ==
    /\ stage_names = <<>>
    /\ max_followup_count = 0
    /\ initial_prompt \in InitialPrompts
    /\ config \in ConfigFiles
    /\ recursion_limit = DEFAULT_RECURSION_LIMIT
    /\ state = <<>>
    /\ node = "none"
    /\ error = ""
    /\ trace = <<>>
    /\ engine = "none"
    /\ q_state = <<>>
    /\ pc = "idle"
    /\ local = <<>>
    /\ main = "start"
    /\ output_file \in PreviousOutputs

NextStart ==
    \/ run_native_start
    \/ within_limit /\ init_stage
    \/ within_limit /\ call_diagnostic
    \/ within_limit /\ call_questioning
    \/ within_limit /\ update_stage
    \/ graph_recursion_error
    \/ run_native_save
    \/ run_native_raise

SpecStart == InitStart /\ [][NextStart]_vars

\* ------------------------------------------------------------------------
\* C25: a configuration in which a stage lacks one of the four prompt keys,
\* or whose stage names are not exactly the stages that have prompts, makes
\* the construction of the orchestrator fail: the graph is never invoked, so
\* no stage runs, no LLM call is made and the human is never prompted.
\* ------------------------------------------------------------------------
LacksRequiredKey(cfg) ==
    \E n \in DOMAIN cfg.stage_prompts :
        \E t \in required_prompt_types : t \notin DOMAIN cfg.stage_prompts[n]

StageSetsDiffer(cfg) == Range(cfg.stage_names) # DOMAIN cfg.stage_prompts

InvalidStageConfig ==
    /\ {"stage_names", "stage_prompts"} \subseteq DOMAIN config
    /\ LacksRequiredKey(config) \/ StageSetsDiffer(config)

C25_InvalidConfigFailsAtStartup ==
    InvalidStageConfig
    => /\ main \in {"start", "failed"}
       /\ main = "failed" => error # ""
       /\ node = "none"
       /\ state = <<>>
       /\ trace = <<>>
       /\ output_file \in PreviousOutputs

C25_Witness ==
    /\ main = "failed"
    /\ error = "Missing prompt for stage"
    /\ ~StageSetsDiffer(config)
    /\ "questioning_compress" \notin DOMAIN config.stage_prompts[2]
    /\ trace = <<>>

\* ------------------------------------------------------------------------
\* C26: the transition guard of the run (200 unless PROMPT_AGENT_RECURSION_LIMIT
\* holds a positive number) ends a run that would exceed it in an abort that
\* is not a normal completion, and it also stops a follow-up model that keeps
\* answering need_followup = true: no more follow-up cycles happen in a run
\* than the guard allows transitions.
\* ------------------------------------------------------------------------
\* The engine entered in a run whose limit the environment set to the
\* smallest positive value.
InitGuard == InitEngine /\ recursion_limit = resolve_recursion_limit([kind |-> "int", value |-> 1])

SpecGuard == InitGuard /\ [][NextQ]_vars

FollowupCycles == {i \in FollowupChecks : trace[i].need_followup}

C27_FollowupCountReset ==
    (engine = "controller" /\ pc = "returned" /\ local.followup_count = 0)
    => q_state.followup_count = 0

\* ------------------------------------------------------------------------
\* C28: the ask_question node entered with dialogue_idx >= len(question_list)
\* fails with an 'out of range' error before the human is prompted or the
\* model is called, and leaves answer_list as it was.
\* ------------------------------------------------------------------------
C28_Step ==
    (/\ engine = "controller"
     /\ pc = "start"
     /\ q_state.dialogue_idx >= Len(q_state.question_list))
    => /\ pc' = "raised"
       /\ error' = "dialogue_idx out of range"
       /\ trace' = trace
       /\ q_state' = q_state

C28_OutOfRangeFailsFirst == [][C28_Step]_vars

C28_Witness ==
    /\ engine = "controller"
    /\ pc = "raised"
    /\ error = "dialogue_idx out of range"
    /\ q_state.dialogue_idx > Len(q_state.question_list)
    /\ Len(q_state.answer_list) = 1
    /\ trace = <<>>

\* ------------------------------------------------------------------------
\* Whole runs in which a step that can be taken is eventually taken: every
\* LLM call and every human input returns, and the graph runtime keeps
\* executing the next node.
\* ------------------------------------------------------------------------
SpecLive == Spec /\ WF_vars(Next)

\* ------------------------------------------------------------------------
\* C29: if every sub-agent call of a run succeeds, the run, started from the
\* empty state with a non-empty prompt and at least one stage, eventually
\* reaches the end of the graph.
\* ------------------------------------------------------------------------
C29_RunTerminates == <>(FailedCalls # {} \/ node = "END")

\* ------------------------------------------------------------------------
\* The Orchestrator built directly with any prompt string, the empty one
\* included, and its compiled graph invoked on the empty state with the
\* limit the system test passes.
\* ------------------------------------------------------------------------
DirectPrompts == {""} \cup InitialPrompts

InitDirect ==
    /\ stage_names \in {[i \in 1..n |-> i] : n \in 1..MaxStages}
    /\ max_followup_count \in 0..MaxFollowup
    /\ initial_prompt \in DirectPrompts
    /\ config = ConfigOf(stage_names, max_followup_count)
    /\ recursion_limit = DEFAULT_RECURSION_LIMIT
    /\ state = <<>>
    /\ node = "init_stage"
    /\ error = ""
    /\ trace = <<>>
    /\ engine = "none"
    /\ q_state = <<>>
    /\ pc = "idle"
    /\ local = <<>>
    /\ main = "none"
    /\ output_file = "absent"

NextDirect ==
    \/ within_limit /\ init_stage
    \/ within_limit /\ call_diagnostic
    \/ within_limit /\ call_questioning
    \/ within_limit /\ update_stage
    \/ graph_recursion_error

SpecDirect == InitDirect /\ [][NextDirect]_vars

\* ------------------------------------------------------------------------
\* C30: an init_stage that is not the first step of the run leaves stage_idx
\* and current_prompt as they were, whatever prompt the orchestrator was
\* built with (the empty string included) and whatever the stages produced;
\* stage_idx is set to 1 only by the first init_stage of the run.
\* ------------------------------------------------------------------------
C30_Step ==
    (/\ node = "init_stage"
     /\ trace # <<>>
     /\ trace' # trace)
    => /\ state'.stage_idx = state.stage_idx
       /\ state'.current_prompt = state.current_prompt

C30_LaterInitStageKeepsStage == [][C30_Step]_vars

\* ------------------------------------------------------------------------
\* C31: for every stage of the validated configuration and each of the four
\* configured prompt keys, get_system_prompt returns the stage's prompt
\* without error, so that a call_questioning entered with a question to ask
\* reaches the Conversation Engine.
\* ------------------------------------------------------------------------
C31_ConfiguredPromptsFound ==
    \A i \in DOMAIN trace :
        trace[i].ev = "call_questioning"
        => /\ \A k \in 1..Len(stage_names) : \A t \in required_prompt_types :
                /\ get_system_prompt(k, t).ok
                /\ get_system_prompt(k, t).value = PromptOf(stage_names[k], t)
           /\ i < Len(trace)
           /\ trace[i + 1].ev = "questioning"

\* ------------------------------------------------------------------------
\* C32: the followup_count of the orchestrator state stays within
\* 0..max_followup_count and is 0 whenever the Conversation Engine is about
\* to be invoked for a question: init_stage and increment_dialogue_idx reset
\* it, so no question inherits the count of an earlier one.  Stated as a
\* property every node preserves: the count is in range, and it is 0 except
\* between call_questioning and increment_dialogue_idx.
\* ------------------------------------------------------------------------
FollowupCountInv(s, n) ==
    "followup_count" \in DOMAIN s
    => /\ s.followup_count \in 0..max_followup_count
       /\ n # "increment_dialogue_idx" => s.followup_count = 0

C32_Step ==
    /\ whole_run => FollowupCountInv(state, node)
    /\ FollowupCountInv(state, node) => FollowupCountInv(state', node')

C32_FollowupCountPerQuestion == [][C32_Step]_vars

\* A question was completed with the whole allowance used; the next question
\* is about to be asked and the count is 0 again.
C32_Witness ==
    /\ node = "call_questioning"
    /\ trace = <<[ev |-> "increment_dialogue_idx"]>>
    /\ state.dialogue_idx = 1
    /\ state.followup_count = 0
    /\ Len(state.answer_list) = 1

\* ------------------------------------------------------------------------
\* C33: the Diagnose sub-agent succeeds only on a JSON response whose
\* questions field is a list of strings; any other response (not JSON, no
\* questions field, not a list, a list with a non-string element) makes
\* diagnose_prompt fail, and question_list is not set from it.
\* ------------------------------------------------------------------------
IsString(x) == x # NonString

ListOfStrings(resp) ==
    /\ resp.raw = "json"
    /\ resp.has_questions
    /\ resp.is_list
    /\ \A j \in DOMAIN resp.questions : IsString(resp.questions[j])

C33_DiagnoseNeedsListOfStrings ==
    \A i \in DOMAIN trace :
        trace[i].ev = "diagnose" /\ ~ListOfStrings(trace[i].response)
        => /\ ~trace[i].ok
           /\ i = Len(trace)
           /\ node = "ABORT"
           /\ state.question_list = <<>>

\* ------------------------------------------------------------------------
\* C34: the compression step fails whenever the model's response is not
\* parseable JSON, lacks the compressed field, or holds an empty or
\* whitespace-only text; when it fails nothing is appended to answer_list and
\* dialogue_idx is not advanced.
\* ------------------------------------------------------------------------
UnusableCompression(resp) ==
    \/ resp.raw = "notjson"
    \/ /\ resp.raw = "json"
       /\ \/ resp.kind = "absent"
          \/ resp.kind = "str" /\ strip(resp.compressed) = ""

C34_Step ==
    (/\ Len(trace') = Len(trace) + 1
     /\ trace'[Len(trace')].ev = "llm_compress"
     /\ UnusableCompression(trace'[Len(trace')].response))
    => /\ ~trace'[Len(trace')].ok
       /\ pc' = "raised"
       /\ error' # ""
       /\ q_state' = q_state
       /\ "result" \notin DOMAIN local'

C34_UnusableCompressionFails == [][C34_Step]_vars

C34_Witness ==
    /\ engine = "controller"
    /\ pc = "raised"
    /\ error = "LLM generated empty compressed Q&A"
    /\ trace[Len(trace)].ev = "llm_compress"
    /\ trace[Len(trace)].response.compressed = " "
    /\ q_state.dialogue_idx = 1
    /\ Len(q_state.answer_list) = 1

\* ------------------------------------------------------------------------
\* C35: the Integrate sub-agent fails whenever the model's output is not
\* JSON, has neither current_prompt nor improved_prompt, or the field it
\* picks (current_prompt when present) is not a string or is blank; the
\* failure aborts the run and current_prompt keeps the value it had before
\* the call.
\* ------------------------------------------------------------------------
ChosenField(resp) ==
    IF resp.current_prompt.kind # "absent" THEN resp.current_prompt ELSE resp.improved_prompt

UnusableIntegration(resp) ==
    \/ resp.raw = "notjson"
    \/ /\ resp.raw = "json"
       /\ \/ ChosenField(resp).kind # "str"
          \/ strip(ChosenField(resp).v) = ""

C35_UnusableIntegrationAborts ==
    \A i \in DOMAIN trace :
        trace[i].ev = "integrate" /\ UnusableIntegration(trace[i].response)
        => /\ ~trace[i].ok
           /\ i = Len(trace)
           /\ node = "ABORT"
           /\ error # ""
           /\ state.current_prompt = trace[i].prompt

C35_Witness ==
    /\ node = "ABORT"
    /\ \E i \in DOMAIN trace :
         /\ trace[i].ev = "integrate"
         /\ trace[i].response = IntegrateJson(Field("nonstr", ""), Field("str", "P1"))
         /\ state.current_prompt = "P0"
         /\ state.answer_list # <<>>

\* ------------------------------------------------------------------------
\* C36: the normalisation of Integrate maps answer_list to a list of
\* question/answer pairs of the same length and order.  A structured entry
\* gives its own question and answer; a text entry is split at its first
\* "Q:" and the first "A:" after it (question = the text between the markers,
\* answer = the text after "A:"); an entry without these markers gives an
\* empty question and the whole text as answer.  All texts are taken without
\* surrounding blanks.
\* ------------------------------------------------------------------------
Occurs(text, marker, i) ==
    /\ i \in 1..Len(text)
    /\ i + Len(marker) - 1 <= Len(text)
    /\ SubSeq(text, i, i + Len(marker) - 1) = marker

\* q and a are the positions of the first "Q:" and of the first "A:" behind it.
FirstMarkers(text, q, a) ==
    /\ Occurs(text, "Q:", q)
    /\ \A i \in 1..(q - 1) : ~Occurs(text, "Q:", i)
    /\ a >= q + 2
    /\ Occurs(text, "A:", a)
    /\ \A i \in (q + 2)..(a - 1) : ~Occurs(text, "A:", i)

HasMarkers(text) == \E q \in 1..Len(text) : \E a \in 1..Len(text) : FirstMarkers(text, q, a)

NormalizedAs(item, pair) ==
    IF item.kind = "dict"
    THEN /\ pair.question = (IF "question" \in DOMAIN item.d THEN strip(item.d.question) ELSE "")
         /\ pair.answer = (IF "answer" \in DOMAIN item.d THEN strip(item.d.answer) ELSE "")
    ELSE LET text == strip(item.text)
         IN /\ HasMarkers(text) =>
                 \A q \in 1..Len(text) : \A a \in 1..Len(text) :
                     FirstMarkers(text, q, a) =>
                         /\ pair.question = strip(SubSeq(text, q + 2, a - 1))
                         /\ pair.answer = strip(SubSeq(text, a + 2, Len(text)))
            /\ ~HasMarkers(text) => pair.question = "" /\ pair.answer = text

C36_NormalizationSplitsAtMarkers ==
    (engine = "normalize" /\ pc = "returned")
    => /\ Len(local.result) = Len(q_state.answer_list)
       /\ \A i \in DOMAIN q_state.answer_list :
            /\ DOMAIN local.result[i] = {"question", "answer"}
            /\ NormalizedAs(q_state.answer_list[i], local.result[i])

C36_Witness ==
    /\ engine = "normalize"
    /\ pc = "returned"
    /\ q_state.answer_list = <<StrItem("Q: Q1 A: C2 A: D"), DictItem([answer |-> "C2"])>>
    /\ local.result = <<[question |-> "Q1", answer |-> "C2 A: D"],
                        [question |-> "", answer |-> "C2"]>>

\* ------------------------------------------------------------------------
\* C37
\* ------------------------------------------------------------------------
\* The separators as the statement lists them: commas, slashes, full-width
\* commas, middle dots, whitespace.
StatedSeparators == {",", "/", FULLWIDTH_COMMA, MIDDLE_DOT, " "}

\* The separators with the ideographic comma in the place of the middle dot.
ListedSeparators == {",", "/", FULLWIDTH_COMMA, IDEOGRAPHIC_COMMA, " "}

\* text is one or more single ASCII letters, every two neighbours of which are
\* separated by a non-empty run of characters of seps.
LettersSeparatedBy(text, seps) ==
    /\ text # ""
    /\ \A i \in 1..Len(text) :
         LET c == SubSeq(text, i, i) IN
         \/ /\ c \in Letters
            /\ i > 1 => SubSeq(text, i - 1, i - 1) \in seps
            /\ i < Len(text) => SubSeq(text, i + 1, i + 1) \in seps
         \/ /\ c \in seps
            /\ i > 1
            /\ i < Len(text)

\* No letter of text is the letter of an option of the list.
NoLetterMatches(text, options) ==
    \A i \in 1..Len(text) : \A k \in DOMAIN options :
        ~(/\ SubSeq(text, i, i) \in Letters
          /\ option_match(options[k]).matched
          /\ option_match(options[k]).letter = upper(SubSeq(text, i, i)))

KeptAsTyped(recorded, answer, options, seps) ==
    (\/ options = NoOptions
     \/ ~LettersSeparatedBy(strip(answer), seps)
     \/ NoLetterMatches(strip(answer), options))
    => recorded = [text |-> answer, selected |-> <<>>]

ExpansionKeepsAsTyped(seps) ==
    /\ engine = "expand" /\ pc = "returned"
       => KeptAsTyped(local.result, q_state.answer, q_state.options, seps)
    /\ engine = "tool"
       => \A i \in HumanPrompts :
            Len(local.conversation_history) >= TurnOf(i)
            => KeptAsTyped(local.conversation_history[TurnOf(i)].answer,
                           trace[i].answer, trace[i].options, seps)

\* C37 as stated: the answer is recorded exactly as typed when no options were
\* offered, when the trimmed answer is anything but single ASCII letters
\* separated by commas, slashes, full-width commas, middle dots or whitespace,
\* and when no letter of it matches an option.
C37_AsStated == ExpansionKeepsAsTyped(StatedSeparators)

\* C37, amended: the same with the separators being commas, slashes,
\* full-width commas, ideographic commas and whitespace; a middle dot is other
\* content.
C37_ExpansionKeepsAsTyped == ExpansionKeepsAsTyped(ListedSeparators)

C37_Witness ==
    /\ engine = "expand"
    /\ pc = "returned"
    /\ q_state.options = <<"A) x", "B) y">>
    /\ q_state.answer = "a" \o MIDDLE_DOT \o "b"
    /\ local.result = [text |-> "a" \o MIDDLE_DOT \o "b", selected |-> <<>>]

\* ------------------------------------------------------------------------
\* C38
\* ------------------------------------------------------------------------
\* The step leaves every field of PipelineState outside keys as it was.
ChangesOnly(keys) ==
    \A k \in (DOMAIN state \cup DOMAIN state') \ keys :
        /\ k \in DOMAIN state
        /\ k \in DOMAIN state'
        /\ state'[k] = state[k]

PromptInitialized(s) == "current_prompt" \in DOMAIN s /\ s.current_prompt # ""

C38_Step ==
    /\ node = "call_diagnostic" => ChangesOnly({"question_list"})
    /\ node = "call_questioning" => ChangesOnly({"answer_list", "followup_count"})
    /\ node = "call_integration" => ChangesOnly({"current_prompt"})
    /\ node = "update_stage" => ChangesOnly({"stage_idx"})
    /\ PromptInitialized(state) /\ node # "call_integration"
       => PromptInitialized(state') /\ state'.current_prompt = state.current_prompt
    /\ engine = "controller"
       => \A k \in DOMAIN q_state \ {"answer_list", "followup_count"} :
            k \in DOMAIN q_state' /\ q_state'[k] = q_state[k]

StageAnswersInv(s, n) ==
    "answer_list" \in DOMAIN s
    => /\ n = "call_diagnostic" => s.answer_list = <<>> /\ s.dialogue_idx = 0
       /\ n = "call_questioning"
          => Len(s.answer_list) = s.dialogue_idx /\ s.dialogue_idx < Len(s.question_list)
       /\ n = "increment_dialogue_idx"
          => Len(s.answer_list) = s.dialogue_idx + 1 /\ s.dialogue_idx < Len(s.question_list)
       /\ n = "call_integration"
          => Len(s.answer_list) = Len(s.question_list) /\ s.dialogue_idx = Len(s.question_list)

\* The questioning controller, entered with one answer per earlier question,
\* returns with one more: the compressed conversation about the current one.
AnswerOfCurrentQuestion ==
    (/\ engine = "controller"
     /\ pc # "returned"
     /\ pc' = "returned"
     /\ Len(q_state.answer_list) = q_state.dialogue_idx)
    => LET d == q_state.dialogue_idx
           call == trace'[Len(trace')]
       IN /\ Len(q_state'.answer_list) = d + 1
          /\ SubSeq(q_state'.answer_list, 1, d) = q_state.answer_list
          /\ call.ev = "llm_compress"
          /\ call.history[1].question = q_state.question_list[d + 1]
          /\ q_state'.answer_list[d + 1]
               = compress_conversation(call.history, call.response).value

C39_Step ==
    /\ whole_run => StageAnswersInv(state, node)
    /\ StageAnswersInv(state, node) => StageAnswersInv(state', node')
    /\ node = "init_stage" /\ node' # "ABORT" => state'.answer_list = <<>>
    /\ AnswerOfCurrentQuestion

\* C39: whenever Integrate is invoked for a stage, answer_list has exactly
\* len(question_list) entries, entry i being the compressed result of the
\* stage's question i, none of them from an earlier stage.  Stated as a
\* property every step preserves: init_stage empties the list, each
\* completed question adds its compressed result at the end, and the route to
\* call_integration is taken when the cursor has passed the last question.
C39_IntegrateGetsOneAnswerPerQuestion == [][C39_Step]_vars

\* The last question of a stage with two questions has been counted and
\* Integrate is next.
C39_Witness ==
    /\ engine = "unit"
    /\ node = "call_integration"
    /\ trace = <<[ev |-> "increment_dialogue_idx"]>>
    /\ Len(state.question_list) = 2
    /\ Len(state.answer_list) = 2
    /\ state.dialogue_idx = 2

\* ------------------------------------------------------------------------
\* C40: in a whole run started from the empty state with a valid
\* configuration no range error is raised: a node that looks up a stage
\* prompt is entered with 1 <= stage_idx <= N, call_questioning, which hands
\* the state to the Conversation Engine, is entered with
\* dialogue_idx < len(question_list), and every lookup and sub-agent call
\* recorded so far was for a stage in 1..N.
\* ------------------------------------------------------------------------
RangeErrors == {"stage_idx out of range", "dialogue_idx out of range"}

LookupNodes == {"call_diagnostic", "call_questioning", "call_integration"}

C40_NoRangeError ==
    engine = "none" =>
        /\ error \notin RangeErrors
        /\ node \in LookupNodes => state.stage_idx \in 1..Len(stage_names)
        /\ node = "call_questioning" => state.dialogue_idx < Len(state.question_list)
        /\ \A i \in DOMAIN trace :
             /\ "stage" \in DOMAIN trace[i] => trace[i].stage \in 1..Len(stage_names)
             /\ "dialogue_idx" \in DOMAIN trace[i]
                => \E j \in 1..(i - 1) :
                     /\ trace[j].ev = "diagnose"
                     /\ trace[j].stage = trace[i].stage
                     /\ trace[i].dialogue_idx < Len(trace[j].questions)

\* The last configured stage looked up its prompts with a question pending.
C40_Witness ==
    /\ engine = "none"
    /\ Len(stage_names) = MaxStages
    /\ \E i \in DOMAIN trace :
         /\ trace[i].ev = "call_questioning"
         /\ trace[i].stage = Len(stage_names)
         /\ trace[i].dialogue_idx = 0
    /\ state.stage_idx = Len(stage_names)
    /\ Len(state.question_list) = MaxQuestions
    /\ error \notin RangeErrors

====
